---- MODULE Spec2Model ----
(***************************************************************************)
(* The website-rendering proxy of modify.style.                            *)
(*                                                                         *)
(* Two implementations of the render pipeline exist in the repository:     *)
(*   "service" : ProxyService.render_website  (api/services/proxy_service) *)
(*   "view"    : the proxy_website endpoint   (api/views)                  *)
(* Each worker thread of the server runs one call at a time; a call walks  *)
(* through the statements of the function it executes, one action per      *)
(* statement.  Python strings are sequences of one-character strings.      *)
(*                                                                         *)
(* The markup rewriter (ProxyService._process_html and the second half of  *)
(* proxy_website) and the resource relay (proxy_resource) follow the       *)
(* render pipeline, each under a specification of its own.                 *)
(***************************************************************************)
EXTENDS Integers, Sequences, FiniteSets, TLC

(***************************************************************************)
(* Bounds                                                                  *)
(***************************************************************************)
NumWorkers == 2

Workers == 1..NumWorkers

(***************************************************************************)
(* Strings                                                                 *)
(***************************************************************************)
HTTP == <<"h", "t", "t", "p", ":", "/", "/">>
HTTPS == <<"h", "t", "t", "p", "s", ":", "/", "/">>
NET_ERR == <<"n", "e", "t", ":", ":", "E", "R", "R">>
NAV_FAILED == <<"N", "a", "v", "i", "g", "a", "t", "i", "o", "n", " ", "f", "a", "i", "l", "e", "d">>
TIMEOUT_WORD == <<"t", "i", "m", "e", "o", "u", "t">>

UpperChars == <<"A","B","C","D","E","F","G","H","I","J","K","L","M","N","O","P","Q","R","S","T","U","V","W","X","Y","Z">>
LowerChars == <<"a","b","c","d","e","f","g","h","i","j","k","l","m","n","o","p","q","r","s","t","u","v","w","x","y","z">>

\* str.startswith(prefix)
StartsWith(s, p) == Len(s) >= Len(p) /\ SubSeq(s, 1, Len(p)) = p

\* `p in s` for strings
Contains(s, p) == \E i \in 1..(Len(s) - Len(p) + 1) : SubSeq(s, i, i + Len(p) - 1) = p

LowerChar(ch) ==
    IF \E i \in 1..Len(UpperChars) : UpperChars[i] = ch
    THEN LowerChars[CHOOSE i \in 1..Len(UpperChars) : UpperChars[i] = ch]
    ELSE ch

\* str.lower()
Lower(s) == [i \in 1..Len(s) |-> LowerChar(s[i])]

(***************************************************************************)
(* Inputs and environment                                                  *)
(***************************************************************************)
UrlEmpty == <<>>
UrlBare == <<"a", ".", "b">>
UrlHttp == <<"h", "t", "t", "p", ":", "/", "/", "a">>
UrlHttps == <<"h", "t", "t", "p", "s", ":", "/", "/", "a">>
UrlRedirect == <<"h", "t", "t", "p", "s", ":", "/", "/", "b", "/">>

\* the url parameter of a request
Urls == {UrlEmpty, UrlBare, UrlHttp, UrlHttps}

Impls == {"service", "view"}

MsgTimeout == <<"T", "i", "m", "e", "o", "u", "t", " ", "6", "0", "0", "0", "0", "m", "s", " ", "e", "x", "c", "e", "e", "d", "e", "d", ".">>
MsgNet == <<"n", "e", "t", ":", ":", "E", "R", "R", "_", "F", "A", "I", "L", "E", "D">>
MsgClosed == <<"T", "a", "r", "g", "e", "t", " ", "c", "l", "o", "s", "e", "d">>
MsgConnTimeout == <<"C", "o", "n", "n", "e", "c", "t", "i", "o", "n", " ", "t", "i", "m", "e", "o", "u", "t">>

\* exceptions: the class decides the except clause, the message its text
NoExc == [cls |-> "none", msg |-> <<>>]
TimeoutExc == [cls |-> "PlaywrightTimeoutError", msg |-> MsgTimeout]
NetExc == [cls |-> "Error", msg |-> MsgNet]
ConnTimeoutExc == [cls |-> "Error", msg |-> MsgConnTimeout]
ClosedExc == [cls |-> "Error", msg |-> MsgClosed]

\* what each call into the browser library or the HTML parser may raise
Faults(op) ==
    CASE op = "start" -> {ClosedExc}
      [] op \in {"launch", "new_context", "new_page"} -> {TimeoutExc, ClosedExc}
      [] op = "goto" -> {TimeoutExc, NetExc, ConnTimeoutExc, ClosedExc}
      [] op \in {"wait", "evaluate", "content"} -> {ClosedExc}
      [] op = "process" -> {ClosedExc}
      [] op \in {"close", "stop"} -> {ClosedExc}
      [] OTHER -> {}

(***************************************************************************)
(* Handles: driver, browser, browsing context, page                        *)
(***************************************************************************)
Kinds == {"playwright", "browser", "context", "page"}

None == <<>>

HandleIds == Workers \X Kinds

\* seeded fault: one driver and one browser kept at module level and shared
FreshHandle_Shared(w, k) == IF k \in {"playwright", "browser"} THEN <<1, k>> ELSE <<w, k>>

\* the object a constructor call of worker w returns: a new one for this call
FreshHandle(w, k) == <<w, k>>

Absent == [st |-> "absent", owner |-> 0, dom |-> "none", scrolled |-> "none"]

Opened(w) == [st |-> "open", owner |-> w, dom |-> "blank", scrolled |-> "none"]

VARIABLES
    env,      \* the deployment: worker threads, the urls clients ask for, the calls
              \* that can fail and the exceptions they fail with
    call,     \* per worker: the frame of the call it executes
    handles,  \* the browser-side objects
    leaked,   \* handles a finished call left without attempting their release
    rw,       \* the markup rewriter: the document it was given and what it made of it
    relay,    \* the resource relay: the request it serves and the response it builds
    audio     \* the audio creations: the stored records and the invocations of the
              \* synthesis task

render_vars == <<env, call, handles, leaked>>

vars == <<env, call, handles, leaked, rw, relay, audio>>

Pending == [pending |-> TRUE]

NoHtml == [dom |-> "none", scrolled |-> "none"]

NoFinalHtml == [raw |-> NoHtml, base |-> <<>>]

IdleCall ==
    [pc |-> "idle", impl |-> "service", raw |-> <<>>, url |-> <<>>,
     playwright |-> None, browser |-> None, context |-> None, page |-> None,
     exc |-> NoExc, final_url |-> <<>>, html_content |-> NoHtml, final_html |-> NoFinalHtml,
     ret |-> Pending, result |-> [body |-> Pending, http |-> 0],
     ci |-> 0, block |-> "none", raisedAt |-> "none", idle_timeout |-> FALSE,
     sinceAbort |-> -1,
     log |-> <<>>, navigated |-> <<>>]

\* no document is being rewritten
NoRewrite == [stage |-> "off"]

\* no relay request is being served
NoRelay == [pc |-> "off"]

\* no audio creation is asked for
NoAudio == [pc |-> "off"]

InitState ==
    /\ call = [w \in Workers |-> IdleCall]
    /\ handles = [h \in HandleIds |-> Absent]
    /\ leaked = {}
    /\ rw = NoRewrite
    /\ relay = NoRelay
    /\ audio = NoAudio

Ops ==
    {"start", "launch", "new_context", "new_page", "goto", "wait", "evaluate", "content", "process",
     "close", "stop"}

Excs == {TimeoutExc, NetExc, ConnTimeoutExc, ClosedExc}

\* one worker: calls follow one another; every url, every failure
Init ==
    /\ env = [workers |-> {1}, urls |-> Urls, faulty |-> Ops, raises |-> Excs]
    /\ InitState

\* every worker serves requests: calls overlap in every possible way; navigations
\* time out or fail, stopping the driver fails
InitConcurrent ==
    /\ env = [workers |-> Workers, urls |-> {UrlBare}, faulty |-> {"goto", "stop"},
              raises |-> {TimeoutExc, ClosedExc}]
    /\ InitState

\* the exceptions a call into the library can end with in this deployment
Raisable(op) == IF op \in env.faulty THEN Faults(op) \cap env.raises ELSE {}

Logged(c, op, arg) == Append(c.log, [op |-> op, arg |-> arg])

\* the frame after a step of the try block was attempted; sinceAbort counts, up to
\* two, the navigate, settle and extract steps attempted since the client went away
Did(c, op, arg) ==
    [c EXCEPT !.log = Logged(c, op, arg),
              !.sinceAbort = IF @ \in {0, 1} /\ op \in {"goto", "wait", "evaluate", "url", "content"}
                             THEN @ + 1 ELSE @]

(***************************************************************************)
(* Results                                                                 *)
(***************************************************************************)
TimedOutMessage ==
    [text |-> "Request timed out. The website may be slow or taking too long to load.", detail |-> <<>>]

FailedToLoadMessage(m) ==
    [text |-> "Failed to load website: {error_message}. The website may be unreachable or blocked.", detail |-> m]

AnErrorOccurredMessage(m) == [text |-> "An error occurred: {error_message}", detail |-> m]

UrlRequiredMessage == [text |-> "URL parameter is required", detail |-> <<>>]

\* the except clauses of render_website
ServiceFailure(e, url) ==
    IF e.cls = "PlaywrightTimeoutError"
    THEN [error |-> TimedOutMessage, url |-> url]
    ELSE IF Contains(e.msg, NET_ERR) \/ Contains(e.msg, NAV_FAILED)
         THEN [error |-> FailedToLoadMessage(e.msg), url |-> url]
         ELSE IF Contains(Lower(e.msg), TIMEOUT_WORD)
              THEN [error |-> TimedOutMessage, url |-> url]
              ELSE [error |-> AnErrorOccurredMessage(e.msg), url |-> url]

\* the return statement of render_website
ServiceSuccess(processed_html, final_url) ==
    [html |-> processed_html, url |-> final_url, status |-> "success"]

\* a response on which the view set no header of its own
NoHeaders == [h \in {} |-> ""]

\* json_response['X-Frame-Options'] = 'ALLOWALL'
AllowFraming == [h \in {"X-Frame-Options"} |-> "ALLOWALL"]

\* seeded fault: only the page itself is exempt, error answers are not
XframeOptionsExempt_SuccessOnly(response) ==
    IF response.http = 200 THEN response @@ [xframe_options_exempt |-> TRUE] ELSE response

\* @xframe_options_exempt: the response of the view is marked, and the
\* clickjacking middleware sets no X-Frame-Options header of its own on it
XframeOptionsExempt(response) == response @@ [xframe_options_exempt |-> TRUE]

\* seeded fault: the error responses do not echo the url
ViewFailure_NoUrl(e, url) ==
    [body |-> [error |-> TimedOutMessage], http |-> 500, headers |-> NoHeaders]

\* the responses of the except clauses of proxy_website
ViewFailure(e, url) ==
    IF e.cls = "PlaywrightTimeoutError"
    THEN [body |-> [error |-> TimedOutMessage, url |-> url], http |-> 500,
          headers |-> NoHeaders]
    ELSE IF Contains(e.msg, NET_ERR) \/ Contains(e.msg, NAV_FAILED)
         THEN [body |-> [error |-> FailedToLoadMessage(e.msg), url |-> url], http |-> 500,
               headers |-> NoHeaders]
         ELSE IF Contains(Lower(e.msg), TIMEOUT_WORD)
              THEN [body |-> [error |-> TimedOutMessage, url |-> url], http |-> 500,
                    headers |-> NoHeaders]
              ELSE [body |-> [error |-> AnErrorOccurredMessage(e.msg), url |-> url],
                    http |-> 500, headers |-> NoHeaders]

\* the response proxy_website returns from its try block
ViewSuccess(final_html, final_url) ==
    [body |-> [html |-> final_html, url |-> final_url, status |-> "success"], http |-> 200,
     headers |-> AllowFraming]

\* the rewriting of the extracted markup, here only as the value it depends on
ProcessHtml(html_content, final_url) == [raw |-> html_content, base |-> final_url]

(***************************************************************************)
(* A request arrives                                                       *)
(***************************************************************************)
Begin(w) ==
    /\ w \in env.workers
    /\ call[w].pc \in {"idle", "returned"}
    /\ \E impl \in Impls, u \in env.urls :
          call' = [call EXCEPT ![w] = [IdleCall EXCEPT !.pc = "entry", !.impl = impl, !.raw = u, !.url = u]]
    /\ handles' = [h \in HandleIds |-> IF h[1] = w THEN Absent ELSE handles[h]]
    /\ UNCHANGED <<env, leaked>>

\* seeded fault: the plain-http scheme is prepended
NormalizeUrl_Http(url) ==
    IF ~(StartsWith(url, HTTP) \/ StartsWith(url, HTTPS)) THEN HTTP \o url ELSE url

\* if not url.startswith(('http://', 'https://')): url = 'https://' + url
NormalizeUrl(url) ==
    IF ~(StartsWith(url, HTTP) \/ StartsWith(url, HTTPS)) THEN HTTPS \o url ELSE url

\* the statements before the try block
Entry(w) ==
    LET c == call[w] IN
    /\ c.pc = "entry"
    /\ IF c.impl = "view" /\ c.url = <<>>
       THEN call' = [call EXCEPT ![w] = [c EXCEPT !.pc = "returned",
                        !.result = XframeOptionsExempt(
                            [body |-> [error |-> UrlRequiredMessage], http |-> 400,
                             headers |-> NoHeaders])]]
       ELSE call' = [call EXCEPT ![w] = [c EXCEPT !.pc = "start", !.url = NormalizeUrl(c.url)]]
    /\ UNCHANGED <<env, handles, leaked>>

(***************************************************************************)
(* Leaving the try block                                                   *)
(***************************************************************************)
\* seeded fault: the render is started over after a failure
Raise_Retry(c, e) == [c EXCEPT !.exc = e, !.pc = "start"]

\* exception e reaches the except clauses of the outer try
Raise(c, e) ==
    IF c.impl = "service"
    THEN [c EXCEPT !.exc = e, !.ret = ServiceFailure(e, c.url),
                   !.pc = "cleanup", !.ci = 1, !.block = "finally"]
    ELSE [c EXCEPT !.exc = e, !.pc = "cleanup", !.ci = 1,
                   !.block = IF e.cls = "PlaywrightTimeoutError"
                             THEN "except_timeout" ELSE "except_exception"]

\* the try block ran to its end
Finish(c) ==
    IF c.impl = "service"
    THEN [c EXCEPT !.ret = ServiceSuccess(c.final_html, c.final_url),
                   !.pc = "cleanup", !.ci = 1, !.block = "finally"]
    ELSE [c EXCEPT !.pc = "cleanup", !.ci = 1, !.block = "try"]

(***************************************************************************)
(* Launching                                                               *)
(***************************************************************************)
Acquire(w, at, op, kind, field, then) ==
    LET c == Did(call[w], op, kind)
        h == FreshHandle(w, kind)
    IN
    /\ call[w].pc = at
    /\ \/ /\ call' = [call EXCEPT ![w] = [c EXCEPT ![field] = h, !.pc = then]]
          /\ handles' = [handles EXCEPT ![h] = Opened(w)]
       \/ /\ \E e \in Raisable(op) : call' = [call EXCEPT ![w] = Raise(c, e)]
          /\ UNCHANGED handles
    /\ UNCHANGED <<env, leaked>>

\* playwright = sync_playwright().start()
StartDriver(w) == Acquire(w, "start", "start", "playwright", "playwright", "launch")

\* browser = playwright.chromium.launch(...)
LaunchBrowser(w) == Acquire(w, "launch", "launch", "browser", "browser", "new_context")

\* context = browser.new_context(...)
NewContext(w) == Acquire(w, "new_context", "new_context", "context", "context", "new_page")

\* page = context.new_page()
NewPage(w) == Acquire(w, "new_page", "new_page", "page", "page", "goto1")

(***************************************************************************)
(* Navigating                                                              *)
(***************************************************************************)
\* seeded fault: no inner try, the idle timeout fails the render
OnGotoRaise_NoFallback(c, e) ==
    [c EXCEPT !.idle_timeout = (e.cls = "PlaywrightTimeoutError"),
              !.exc = e, !.ret = ServiceFailure(e, c.url), !.pc = "cleanup", !.ci = 1,
              !.block = IF c.impl = "service" THEN "finally" ELSE "except_exception"]

\* the inner try around the first navigation: a timeout falls back, anything else propagates
OnGotoRaise(c, e) ==
    IF e.cls = "PlaywrightTimeoutError"
    THEN [c EXCEPT !.pc = "goto2", !.idle_timeout = TRUE]
    ELSE Raise(c, e)

\* page.goto(url, wait_until='networkidle', timeout=60000)
Goto1(w) ==
    LET c == [Did(call[w], "goto", "networkidle") EXCEPT !.navigated = Append(@, call[w].url)]
    IN
    /\ call[w].pc = "goto1"
    /\ \/ /\ call' = [call EXCEPT ![w] = [c EXCEPT !.pc = "wait1"]]
          /\ handles' = [handles EXCEPT ![c.page].dom = "networkidle"]
       \/ /\ \E e \in Raisable("goto") : call' = [call EXCEPT ![w] = OnGotoRaise(c, e)]
          /\ UNCHANGED handles
    /\ UNCHANGED <<env, leaked>>

\* except PlaywrightTimeoutError: page.goto(url, wait_until='domcontentloaded', timeout=60000)
Goto2(w) ==
    LET c == [Did(call[w], "goto", "domcontentloaded") EXCEPT !.navigated = Append(@, call[w].url)]
    IN
    /\ call[w].pc = "goto2"
    /\ \/ /\ call' = [call EXCEPT ![w] = [c EXCEPT !.pc = "wait1"]]
          /\ handles' = [handles EXCEPT ![c.page].dom = "domcontentloaded"]
       \/ /\ \E e \in Raisable("goto") : call' = [call EXCEPT ![w] = Raise(c, e)]
          /\ UNCHANGED handles
    /\ UNCHANGED <<env, leaked>>

(***************************************************************************)
(* Settling                                                                *)
(***************************************************************************)
\* seeded fault: the page is read right after the first delay
SettleSteps_EarlyExtract ==
    <<[at |-> "wait1", op |-> "wait", arg |-> "3000", then |-> "get_url"]>>

SettleSteps ==
    <<[at |-> "wait1", op |-> "wait", arg |-> "3000", then |-> "scroll_bottom"],
      [at |-> "scroll_bottom", op |-> "evaluate", arg |-> "bottom", then |-> "wait2"],
      [at |-> "wait2", op |-> "wait", arg |-> "1000", then |-> "scroll_top"],
      [at |-> "scroll_top", op |-> "evaluate", arg |-> "top", then |-> "wait3"],
      [at |-> "wait3", op |-> "wait", arg |-> "1000", then |-> "get_url"]>>

\* page.wait_for_timeout(...) and page.evaluate('window.scrollTo(...)')
Settle(w) ==
    \E i \in 1..Len(SettleSteps) :
        LET s == SettleSteps[i]
            c == Did(call[w], s.op, s.arg)
        IN
        /\ call[w].pc = s.at
        /\ \/ /\ call' = [call EXCEPT ![w] = [c EXCEPT !.pc = s.then]]
              /\ handles' = IF s.op = "evaluate"
                            THEN [handles EXCEPT ![c.page].scrolled = s.arg]
                            ELSE handles
           \/ /\ \E e \in Raisable(s.op) : call' = [call EXCEPT ![w] = Raise(c, e)]
              /\ UNCHANGED handles
        /\ UNCHANGED <<env, leaked>>

(***************************************************************************)
(* Extracting and rewriting                                                *)
(***************************************************************************)
\* final_url = page.url
GetUrl(w) ==
    LET c == Did(call[w], "url", "page") IN
    /\ call[w].pc = "get_url"
    /\ \E u \in {c.url, UrlRedirect} :
          call' = [call EXCEPT ![w] = [c EXCEPT !.final_url = u, !.pc = "content"]]
    /\ UNCHANGED <<env, handles, leaked>>

\* html_content = page.content()
Content(w) ==
    LET c == Did(call[w], "content", "page")
        p == handles[c.page]
    IN
    /\ call[w].pc = "content"
    /\ \/ call' = [call EXCEPT ![w] = [c EXCEPT !.pc = "process",
                       !.html_content = [dom |-> p.dom, scrolled |-> p.scrolled]]]
       \/ \E e \in Raisable("content") : call' = [call EXCEPT ![w] = Raise(c, e)]
    /\ UNCHANGED <<env, handles, leaked>>

\* the parse and rewrite of the markup, up to str(soup)
Process(w) ==
    LET c == Did(call[w], "process", "html") IN
    /\ call[w].pc = "process"
    /\ \/ call' = [call EXCEPT ![w] =
                      Finish([c EXCEPT !.final_html = ProcessHtml(c.html_content, c.final_url)])]
       \/ \E e \in Raisable("process") : call' = [call EXCEPT ![w] = Raise(c, e)]
    /\ UNCHANGED <<env, handles, leaked>>

(***************************************************************************)
(* Teardown                                                                *)
(***************************************************************************)
\* seeded fault: the driver is left out of the teardown
ServiceCleanupOrder_NoDriver == <<"page", "context", "browser">>

\* for resource in [page, context, browser, playwright]
ServiceCleanupOrder == <<"page", "context", "browser", "playwright">>

\* seeded fault: the browser is closed before its page and context
ViewCleanupOrder_BrowserFirst == <<"browser", "context", "page", "playwright">>

\* the if page / if context / if browser / if playwright blocks
ViewCleanupOrder == <<"page", "context", "browser", "playwright">>

CleanupOrder(c) == IF c.impl = "service" THEN ServiceCleanupOrder ELSE ViewCleanupOrder

\* hasattr(resource, 'close') / hasattr(resource, 'stop')
ReleaseOp(field) == IF field \in {"page", "context", "browser"} THEN "close" ELSE "stop"

\* on to the next resource, or out of the teardown
NextResource(c) ==
    IF c.ci < Len(CleanupOrder(c)) THEN [c EXCEPT !.ci = @ + 1] ELSE [c EXCEPT !.pc = "respond"]

\* seeded fault: no guard around the release, its exception ends the teardown
AfterRelease_Unguarded(c, field, raised) ==
    IF raised
    THEN [c EXCEPT !.raisedAt = IF @ = "none" THEN field ELSE @,
                   !.exc = ClosedExc, !.ret = ServiceFailure(ClosedExc, c.url),
                   !.block = "except_exception", !.pc = "respond"]
    ELSE NextResource(c)

\* try: resource.close() except: pass
AfterRelease(c, field, raised) ==
    NextResource([c EXCEPT !.raisedAt = IF raised /\ @ = "none" THEN field ELSE @])

Release(w) ==
    LET c == call[w]
        field == CleanupOrder(c)[c.ci]
        h == c[field]
    IN
    /\ c.pc = "cleanup"
    /\ IF h = None
       THEN /\ call' = [call EXCEPT ![w] = NextResource(c)]
            /\ UNCHANGED handles
       ELSE /\ \E raised \in {FALSE} \cup {TRUE : e \in Raisable(ReleaseOp(field))} :
                  call' = [call EXCEPT ![w] =
                              AfterRelease([c EXCEPT !.log = Logged(c, ReleaseOp(field), field)], field, raised)]
            /\ handles' = [handles EXCEPT ![h].st = "released"]
    /\ UNCHANGED <<env, leaked>>

\* the handles of a frame whose release was never attempted
Unreleased(c) == {h \in {c[f] : f \in Kinds} \ {None} : handles[h].st = "open"}

\* the call returns control to its caller
Respond(w) ==
    LET c == call[w] IN
    /\ c.pc = "respond"
    /\ call' = [call EXCEPT ![w] = [c EXCEPT !.pc = "returned",
                  !.result = IF c.impl = "service"
                             THEN [body |-> c.ret, http |-> 0]
                             ELSE XframeOptionsExempt(
                                      IF c.block = "try"
                                      THEN ViewSuccess(c.final_html, c.final_url)
                                      ELSE ViewFailure(c.exc, c.url))]]
    /\ leaked' = leaked \cup Unreleased(c)
    /\ UNCHANGED <<env, handles>>

(***************************************************************************)
(* The client goes away                                                    *)
(***************************************************************************)
InFlight(c) == c.pc \notin {"idle", "returned"}

\* the inbound request is aborted; nothing in either function looks at it
Abort(w) ==
    /\ InFlight(call[w])
    /\ call[w].sinceAbort = -1
    /\ call' = [call EXCEPT ![w].sinceAbort = 0]
    /\ UNCHANGED <<env, handles, leaked>>

Step(w) ==
    \/ Begin(w)
    \/ Entry(w)
    \/ StartDriver(w)
    \/ LaunchBrowser(w)
    \/ NewContext(w)
    \/ NewPage(w)
    \/ Goto1(w)
    \/ Goto2(w)
    \/ Settle(w)
    \/ GetUrl(w)
    \/ Content(w)
    \/ Process(w)
    \/ Release(w)
    \/ Respond(w)
    \/ Abort(w)

Next == \E w \in Workers : Step(w) /\ UNCHANGED <<rw, relay, audio>>

Spec == Init /\ [][Next]_vars

SpecConcurrent == InitConcurrent /\ [][Next]_vars

(***************************************************************************)
(* Properties                                                              *)
(***************************************************************************)
IsRelease(e) == e.op \in {"close", "stop"}

ReleaseEntries(c) == SelectSeq(c.log, IsRelease)

\* every handle worker w acquired in its current call has had its release attempted
AllReleased(w) == \A h \in HandleIds : handles[h].owner = w => handles[h].st = "released"

\* C1: whichever way a render call ends (success, timeout, any other exception,
\* a failure part-way through launching), the release of every handle it
\* acquired has been attempted when it returns; over any sequence of calls no
\* handle is left unreleased.
C1_ReleasedOnEveryExit ==
    /\ leaked = {}
    /\ \A w \in Workers : call[w].pc = "returned" => AllReleased(w)

\* a call that failed creating the context has returned, driver and browser released
C1_Witness ==
    \E w \in Workers :
        /\ call[w].pc = "returned"
        /\ call[w].exc # NoExc
        /\ call[w].browser # None
        /\ call[w].context = None
        /\ handles[call[w].browser].st = "released"
        /\ handles[call[w].playwright].st = "released"

\* what the call returns when every release succeeds
ResultWithoutReleaseFailure(c) ==
    IF c.impl = "service"
    THEN [body |-> IF c.exc = NoExc THEN ServiceSuccess(c.final_html, c.final_url)
                   ELSE ServiceFailure(c.exc, c.url),
          http |-> 0]
    ELSE XframeOptionsExempt(IF c.exc = NoExc THEN ViewSuccess(c.final_html, c.final_url)
                             ELSE ViewFailure(c.exc, c.url))

\* C2: when the release of a handle raises during teardown, the release of
\* every other acquired handle is still attempted and the call returns the
\* result it would have returned had that release succeeded.
C2_ReleaseFailureContained ==
    \A w \in Workers :
        (call[w].pc = "returned" /\ call[w].raisedAt # "none") =>
            /\ AllReleased(w)
            /\ call[w].result = ResultWithoutReleaseFailure(call[w])

\* closing the page raised, the other three handles were released, the call succeeded
C2_Witness ==
    \E w \in Workers :
        /\ call[w].pc = "returned"
        /\ call[w].raisedAt = "page"
        /\ Len(ReleaseEntries(call[w])) = 4
        /\ "html" \in DOMAIN call[w].result.body

Rank(field) ==
    CASE field = "page" -> 1
      [] field = "context" -> 2
      [] field = "browser" -> 3
      [] field = "playwright" -> 4

\* C3: in every teardown (success, timeout and generic-exception path alike)
\* the releases are attempted in the order page, context, browser, driver,
\* each at most once, only for handles that were acquired, and by the time
\* the teardown is over for all of them.
C3_ReleaseOrder ==
    \A w \in Workers :
        LET c == call[w]
            r == ReleaseEntries(c)
        IN
        /\ \A i, j \in 1..Len(r) : i < j => Rank(r[i].arg) < Rank(r[j].arg)
        /\ \A i \in 1..Len(r) :
              /\ c[r[i].arg] # None
              /\ r[i].op = IF r[i].arg = "playwright" THEN "stop" ELSE "close"
        /\ c.pc \in {"respond", "returned"} =>
              {r[i].arg : i \in 1..Len(r)} = {k \in Kinds : c[k] # None}

\* the endpoint's timeout handler has released all four handles
C3_Witness ==
    \E w \in Workers :
        /\ call[w].pc = "returned"
        /\ call[w].impl = "view"
        /\ call[w].block = "except_timeout"
        /\ Len(ReleaseEntries(call[w])) = 4

IsStep(e) == ~IsRelease(e)

\* the steps of the try block attempted so far, in order
StepEntries(c) == SelectSeq(c.log, IsStep)

IsGoto(e) == e.op = "goto"

GotoEntries(c) == SelectSeq(c.log, IsGoto)

LaunchingSteps ==
    <<[op |-> "start", arg |-> "playwright"], [op |-> "launch", arg |-> "browser"],
      [op |-> "new_context", arg |-> "context"], [op |-> "new_page", arg |-> "page"]>>

IdleNavigation == <<[op |-> "goto", arg |-> "networkidle"]>>

FallbackNavigation == <<[op |-> "goto", arg |-> "domcontentloaded"]>>

SettlingSteps ==
    <<[op |-> "wait", arg |-> "3000"], [op |-> "evaluate", arg |-> "bottom"],
      [op |-> "wait", arg |-> "1000"], [op |-> "evaluate", arg |-> "top"],
      [op |-> "wait", arg |-> "1000"]>>

ExtractingSteps ==
    <<[op |-> "url", arg |-> "page"], [op |-> "content", arg |-> "page"],
      [op |-> "process", arg |-> "html"]>>

DirectRun == LaunchingSteps \o IdleNavigation \o SettlingSteps \o ExtractingSteps

FallbackRun ==
    LaunchingSteps \o IdleNavigation \o FallbackNavigation \o SettlingSteps \o ExtractingSteps

IsPrefix(s, t) == Len(s) <= Len(t) /\ SubSeq(t, 1, Len(s)) = s

Phase(c) ==
    CASE c.pc \in {"idle", "entry"} -> "Idle"
      [] c.pc \in {"start", "launch", "new_context", "new_page"} -> "Launching"
      [] c.pc \in {"goto1", "goto2"} -> "Navigating"
      [] c.pc \in {"wait1", "scroll_bottom", "wait2", "scroll_top", "wait3"} -> "Settling"
      [] c.pc \in {"get_url", "content", "process"} -> "Extracting"
      [] c.pc \in {"cleanup", "respond", "returned"} /\ c.exc # NoExc -> "Failed"
      [] c.pc = "returned" /\ c.block = "none" -> "Idle"
      [] OTHER -> "Closed"

PhaseOrder == <<"Idle", "Launching", "Navigating", "Settling", "Extracting", "Closed">>

PhaseStep(a, b) ==
    \/ a = b
    \/ \E i \in 1..(Len(PhaseOrder) - 1) : a = PhaseOrder[i] /\ b = PhaseOrder[i + 1]
    \/ a \in {"Launching", "Navigating", "Settling", "Extracting"} /\ b = "Failed"
    \/ a \in {"Closed", "Failed"} /\ b = "Idle"

\* C4: a render call moves through Launching, Navigating, Settling, Extracting
\* and Closed in that order, one phase after the other: the steps it has
\* attempted are always a prefix of the full run (so url and DOM are read only
\* after the settle delay and both scrolls); a failure in a phase takes it to
\* Failed, where no further launch, navigate, settle or extract step is made.
C4_PhaseOrder ==
    [][\A w \in Workers :
          /\ PhaseStep(Phase(call[w]), Phase(call'[w]))
          /\ IsPrefix(StepEntries(call'[w]), DirectRun) \/ IsPrefix(StepEntries(call'[w]), FallbackRun)
          /\ (Phase(call[w]) = "Failed" /\ Phase(call'[w]) = "Failed") =>
                StepEntries(call'[w]) = StepEntries(call[w])]_vars

\* a call has gone through every phase, fallback navigation included, and returned
C4_Witness ==
    \E w \in Workers :
        /\ call[w].pc = "returned"
        /\ call[w].exc = NoExc
        /\ StepEntries(call[w]) = FallbackRun

IsSuccess(res) == DOMAIN res.body = {"html", "url", "status"} /\ res.body.status = "success"

IsFailure(res) == DOMAIN res.body = {"error", "url"}

\* C5: when the first navigation (network idle) times out, the call navigates
\* once more, with the DOM-content-loaded condition, and only then; when that
\* navigation completes the call goes on as after a first navigation that
\* completed, and returns Success with the DOM the page has at that point
\* unless a later settle, extract or rewrite step raises.
C5_FallbackOnce ==
    \A w \in Workers :
        LET c == call[w] IN
        /\ (c.idle_timeout /\ c.pc = "goto2") => GotoEntries(c) = IdleNavigation
        /\ (c.idle_timeout /\ c.pc # "goto2") =>
              GotoEntries(c) = IdleNavigation \o FallbackNavigation
        /\ ~c.idle_timeout => IsPrefix(GotoEntries(c), IdleNavigation)
        /\ (c.idle_timeout /\ c.pc = "returned" /\ c.exc = NoExc) =>
              /\ IsSuccess(c.result)
              /\ c.result.body.html.raw.dom = "domcontentloaded"

\* the idle wait timed out, the fallback navigation completed, the call returned Success
C5_Witness ==
    \E w \in Workers :
        /\ call[w].pc = "returned"
        /\ call[w].idle_timeout
        /\ IsSuccess(call[w].result)

Attempts(c, op) == Cardinality({i \in 1..Len(c.log) : c.log[i].op = op})

\* C6: within one call the driver is started, the browser launched, the
\* context and the page created at most once each, the target is navigated to
\* at most twice, the second time only after an idle timeout and with the
\* weaker condition; once a step has failed the call is in its teardown or
\* has returned, and what it returns is a Failure.
C6_NoRetry ==
    \A w \in Workers :
        LET c == call[w] IN
        /\ \A op \in {"start", "launch", "new_context", "new_page"} : Attempts(c, op) <= 1
        /\ Attempts(c, "goto") <= 2
        /\ Attempts(c, "goto") = 2 =>
              c.idle_timeout /\ GotoEntries(c)[2].arg = "domcontentloaded"
        /\ c.exc # NoExc => c.pc \in {"cleanup", "respond", "returned"}
        /\ (c.exc # NoExc /\ c.pc = "returned") => IsFailure(c.result)

\* the fallback navigation failed too: two navigations, one launch, a Failure returned
C6_Witness ==
    \E w \in Workers :
        /\ call[w].pc = "returned"
        /\ call[w].exc # NoExc
        /\ Attempts(call[w], "goto") = 2
        /\ Attempts(call[w], "launch") = 1
        /\ IsFailure(call[w].result)

\* the call got past the url check and into its try block
Rendered(c) == c.block # "none"

LacksScheme(u) == ~Contains(u, <<":", "/", "/">>)

\* C8: when the requested url lacks a scheme, from the first step of the
\* render on (driver start, browser launch, every navigation) the url of the
\* call is 'https://' followed by the requested text, and that is the url
\* every navigation is given.
C8_NormalizedBeforeNetwork ==
    \A w \in Workers :
        LET c == call[w] IN
        (LacksScheme(c.raw) /\ c.log # <<>>) =>
            /\ c.url = HTTPS \o c.raw
            /\ \A i \in 1..Len(c.navigated) : c.navigated[i] = HTTPS \o c.raw

\* a.b was requested and navigated to twice
C8_Witness ==
    \E w \in Workers :
        /\ call[w].raw = UrlBare
        /\ Len(call[w].navigated) = 2

\* C9: concurrent render calls are isolated: every handle a call holds was
\* acquired by that call and is held by no other; a step of one call changes
\* neither the frame (state and result) of any other call nor any handle
\* another call acquired.
C9_Isolation ==
    [][\A w \in Workers :
          /\ \A k \in Kinds : call'[w][k] # None =>
                /\ handles'[call'[w][k]].owner = w
                /\ \A q \in Workers \ {w}, j \in Kinds : call'[q][j] # call'[w][k]
          /\ call'[w] # call[w] =>
                /\ \A q \in Workers \ {w} : call'[q] = call[q]
                /\ \A h \in HandleIds : handles'[h] # handles[h] =>
                      {handles[h].owner, handles'[h].owner} \subseteq {0, w}]_vars

\* one call is tearing down after a failure while another is settling its own page
C9_Witness ==
    \E w, q \in Workers :
        /\ w # q
        /\ call[w].pc = "cleanup"
        /\ call[w].exc # NoExc
        /\ call[w].page # None
        /\ call[q].pc = "wait1"
        /\ call[q].page # None
        /\ handles[call[q].page].st = "open"

\* C10: when the client goes away while a render is in flight, the call
\* reaches its teardown promptly: at most the step in flight at that moment
\* completes, the remaining navigate, settle and extract steps are not run.
C10_AbortReachesTeardown == \A w \in Workers : call[w].sinceAbort <= 1
(***************************************************************************)
(* More of str, and urllib.parse as the rewriter and the relay use it.     *)
(* TLC evaluates the argument of an operator wherever the body mentions    *)
(* the parameter; the operators below first bind their arguments (written  *)
(* with a capital) to values, as a Python call does.                       *)
(***************************************************************************)
\* the element of a one-element set
The(S) == CHOOSE x \in S : TRUE

Digits == {"0", "1", "2", "3", "4", "5", "6", "7", "8", "9"}

Letters == {LowerChars[i] : i \in 1..Len(LowerChars)} \cup {UpperChars[i] : i \in 1..Len(UpperChars)}

\* s[:n] and s[n:]
Take(S, n) == SubSeq(S, 1, n)

Drop(S, N) == The({SubSeq(s, n + 1, Len(s)) : s \in {S}, n \in {N}})

\* the positions at which p occurs in s
Occurrences(s, p) == {i \in 1..(Len(s) - Len(p) + 1) : SubSeq(s, i, i + Len(p) - 1) = p}

Min(S) == CHOOSE i \in S : \A j \in S : i <= j

Max(S) == CHOOSE i \in S : \A j \in S : i >= j

\* s.find(p) + 1: the first position at which p occurs in s, 0 if it does not
Find(S, P) == The({IF occ = {} THEN 0 ELSE Min(occ) : occ \in {Occurrences(S, P)}})

\* s.rfind(p) + 1
RFind(S, P) == The({IF occ = {} THEN 0 ELSE Max(occ) : occ \in {Occurrences(S, P)}})

\* s.split(sep, 1)
Split1(S, Sep) ==
    The({IF i = 0 THEN <<s>> ELSE <<Take(s, i - 1), Drop(s, i + Len(sep) - 1)>> :
         s \in {S}, sep \in {Sep}, i \in {Find(S, Sep)}})

\* s.rsplit(sep, 1)
RSplit1(S, Sep) ==
    The({IF i = 0 THEN <<s>> ELSE <<Take(s, i - 1), Drop(s, i + Len(sep) - 1)>> :
         s \in {S}, sep \in {Sep}, i \in {RFind(S, Sep)}})

\* s.split(sep)
RECURSIVE Split(_, _)
Split(S, Sep) ==
    The({IF Len(cut) = 1 THEN cut ELSE <<cut[1]>> \o Split(cut[2], sep) :
         sep \in {Sep}, cut \in {Split1(S, Sep)}})

\* sep.join(parts)
RECURSIVE Join(_, _)
Join(Parts, Sep) ==
    The({IF parts = <<>> THEN <<>>
         ELSE IF Len(parts) = 1 THEN parts[1]
         ELSE parts[1] \o sep \o Join(Tail(parts), sep) :
         parts \in {Parts}, sep \in {Sep}})

\* ''.join(parts)
RECURSIVE Concat(_)
Concat(Parts) ==
    The({IF parts = <<>> THEN <<>>
         ELSE IF Len(parts) = 1 THEN parts[1]
         ELSE Concat(Take(parts, Len(parts) \div 2)) \o Concat(Drop(parts, Len(parts) \div 2)) :
         parts \in {Parts}})

\* s.strip(chars)
StripChars(S, Chars) ==
    The({IF keep = {} THEN <<>> ELSE SubSeq(s, Min(keep), Max(keep)) :
         s \in {S}, keep \in {{i \in 1..Len(S) : S[i] \notin Chars}}})

\* s.strip(): the white space of the documents here is the space
Strip(s) == StripChars(s, {" "})

\* s.startswith((p1, p2, ...))
StartsWithAny(S, prefixes) == The({\E p \in prefixes : StartsWith(s, p) : s \in {S}})

\* urllib.parse.scheme_chars
SchemeChars == Letters \cup Digits \cup {"+", "-", "."}

\* urllib.parse.uses_relative and uses_netloc, as far as the schemes here go
UsesRelative == {<<"h", "t", "t", "p">>, <<"h", "t", "t", "p", "s">>, <<"f", "t", "p">>, <<>>}

\* the end of the authority: the first of / ? # (urllib.parse._splitnetloc)
NetlocEnd(S) ==
    The({IF ends = {} THEN Len(s) + 1 ELSE Min(ends) :
         s \in {S}, ends \in {{i \in 1..Len(S) : S[i] \in {"/", "?", "#"}}}})

\* the url after its scheme, and the scheme if it has one
SplitScheme(Url) ==
    The({IF i > 1 /\ url[1] \in Letters /\ \A k \in 1..(i - 1) : url[k] \in SchemeChars
         THEN [has |-> TRUE, scheme |-> Lower(Take(url, i - 1)), rest |-> Drop(url, i)]
         ELSE [has |-> FALSE, scheme |-> <<>>, rest |-> url] :
         url \in {Url}, i \in {Find(Url, <<":">>)}})

\* the url after its authority, and the authority if it has one
SplitNetloc(Rest) ==
    The({IF StartsWith(rest, <<"/", "/">>)
         THEN [netloc |-> SubSeq(rest, 3, end + 1), rest |-> Drop(rest, end + 1)]
         ELSE [netloc |-> <<>>, rest |-> rest] :
         rest \in {Rest}, end \in {NetlocEnd(Drop(Rest, 2))}})

\* urllib.parse.urlsplit(url, scheme)
UrlSplit(Url, default_scheme) ==
    The({The({The({The({
        [scheme |-> IF s.has THEN s.scheme ELSE default_scheme,
         netloc |-> n.netloc,
         path |-> byQuery[1],
         query |-> IF Len(byQuery) = 2 THEN byQuery[2] ELSE <<>>,
         fragment |-> IF Len(byFragment) = 2 THEN byFragment[2] ELSE <<>>] :
        byQuery \in {Split1(byFragment[1], <<"?">>)}}) :
        byFragment \in {Split1(n.rest, <<"#">>)}}) :
        n \in {SplitNetloc(s.rest)}}) :
        s \in {SplitScheme(Url)}})

\* urllib.parse.urlparse(url), without the ;parameters no url here has
UrlParse(url) == UrlSplit(url, <<>>)

\* urllib.parse.urlunsplit
UrlUnsplit(Parts) ==
    The({(IF p.scheme # <<>> THEN p.scheme \o <<":">> ELSE <<>>)
         \o (IF p.netloc # <<>> \/ (p.scheme # <<>> /\ p.scheme \in UsesRelative /\ ~StartsWith(p.path, <<"/", "/">>))
             THEN <<"/", "/">> \o p.netloc \o (IF p.path # <<>> /\ p.path[1] # "/" THEN <<"/">> ELSE <<>>) \o p.path
             ELSE p.path)
         \o (IF p.query # <<>> THEN <<"?">> \o p.query ELSE <<>>)
         \o (IF p.fragment # <<>> THEN <<"#">> \o p.fragment ELSE <<>>) :
         p \in {Parts}})

\* the loop of urljoin over the segments: .. pops one, . is skipped
RECURSIVE ResolveSegments(_, _)
ResolveSegments(Segments, Resolved) ==
    The({IF segments = <<>> THEN resolved
         ELSE ResolveSegments(Tail(segments),
                 IF segments[1] = <<".", ".">>
                 THEN (IF resolved = <<>> THEN resolved ELSE Take(resolved, Len(resolved) - 1))
                 ELSE IF segments[1] = <<".">> THEN resolved
                 ELSE Append(resolved, segments[1])) :
         segments \in {Segments}, resolved \in {Resolved}})

NonEmpty(seg) == seg # <<>>

\* segments[1:-1] = filter(None, segments[1:-1])
FilterInner(Segments) ==
    The({IF Len(segments) <= 2 THEN segments
         ELSE <<segments[1]>> \o SelectSeq(SubSeq(segments, 2, Len(segments) - 1), NonEmpty)
              \o <<segments[Len(segments)]>> :
         segments \in {Segments}})

\* base_parts: the segments of the base path without the last, unless it is empty
BaseParts(Path) ==
    The({IF parts[Len(parts)] # <<>> THEN Take(parts, Len(parts) - 1) ELSE parts : parts \in {Split(Path, <<"/">>)}})

\* the path of a relative reference joined to the path of the base
JoinPaths(BasePath, Path) ==
    The({The({IF joined = <<>> THEN <<"/">> ELSE joined :
              joined \in {Join(IF segments[Len(segments)] \in {<<".">>, <<".", ".">>}
                               THEN Append(ResolveSegments(segments, <<>>), <<>>)
                               ELSE ResolveSegments(segments, <<>>), <<"/">>)}}) :
         segments \in {IF StartsWith(Path, <<"/">>) THEN Split(Path, <<"/">>)
                       ELSE FilterInner(BaseParts(BasePath) \o Split(Path, <<"/">>))}})

\* urllib.parse.urljoin(base, url)
UrlJoin(Base, Url) ==
    The({The({
        IF base = <<>> THEN url
        ELSE IF url = <<>> THEN base
        ELSE IF u.scheme # b.scheme \/ u.scheme \notin UsesRelative THEN url
        ELSE IF u.netloc # <<>> THEN UrlUnsplit(u)
        ELSE IF u.path = <<>>
             THEN UrlUnsplit([u EXCEPT !.netloc = b.netloc, !.path = b.path,
                                       !.query = IF u.query = <<>> THEN b.query ELSE u.query])
        ELSE UrlUnsplit([u EXCEPT !.netloc = b.netloc, !.path = JoinPaths(b.path, u.path)]) :
        u \in {UrlSplit(url, b.scheme)}}) :
        base \in {Base}, url \in {Url}, b \in {UrlParse(Base)}})

(***************************************************************************)
(* Resolving and encoding the urls of a document                           *)
(***************************************************************************)
PROXY_BASE == <<"{", "{", "P", "R", "O", "X", "Y", "_", "B", "A", "S", "E", "}", "}">>
PROXY_PATH == <<"/", "a", "p", "i", "/", "p", "r", "o", "x", "y", "-", "p", "a", "t", "h", "/">>
PROXY_RESOURCE == <<"/", "a", "p", "i", "/", "p", "r", "o", "x", "y", "-", "r", "e", "s", "o", "u", "r", "c", "e", "/">>
URL_PARAM == <<"?", "u", "r", "l", "=">>

\* the characters urllib.parse.quote never escapes
AlwaysSafe == Letters \cup Digits \cup {"_", ".", "-", "~"}

\* the two hexadecimal digits of the code of a character
HexOf(ch) ==
    CASE ch = " " -> <<"2", "0">> [] ch = "#" -> <<"2", "3">> [] ch = "%" -> <<"2", "5">> [] ch = "&" -> <<"2", "6">>
      [] ch = "'" -> <<"2", "7">> [] ch = "(" -> <<"2", "8">> [] ch = ")" -> <<"2", "9">> [] ch = "+" -> <<"2", "B">>
      [] ch = "," -> <<"2", "C">> [] ch = "/" -> <<"2", "F">> [] ch = ":" -> <<"3", "A">> [] ch = ";" -> <<"3", "B">>
      [] ch = "=" -> <<"3", "D">> [] ch = "?" -> <<"3", "F">> [] ch = "@" -> <<"4", "0">> [] ch = "{" -> <<"7", "B">>
      [] ch = "}" -> <<"7", "D">>

Escapable == {" ", "#", "%", "&", "'", "(", ")", "+", ",", "/", ":", ";", "=", "?", "@", "{", "}"}

\* urllib.parse.quote(s, safe='')
Quote(S) ==
    The({Concat([i \in 1..Len(s) |-> IF s[i] \in AlwaysSafe THEN <<s[i]>> ELSE <<"%">> \o HexOf(s[i])]) :
         s \in {S}})

\* a %XX escape starts at position i of s
IsEscape(s, i) == s[i] = "%" /\ i + 2 <= Len(s) /\ \E ch \in Escapable : HexOf(ch) = SubSeq(s, i + 1, i + 2)

\* urllib.parse.unquote(s), for the escapes quote produces here
Unquote(S) ==
    The({Concat([i \in 1..Len(s) |->
            IF IsEscape(s, i) THEN <<CHOOSE ch \in Escapable : HexOf(ch) = SubSeq(s, i + 1, i + 2)>>
            ELSE IF (i > 1 /\ IsEscape(s, i - 1)) \/ (i > 2 /\ IsEscape(s, i - 2)) THEN <<>>
            ELSE <<s[i]>>]) :
         s \in {S}})

\* the base_url each implementation resolves against: the service the final url
\* of the page, the endpoint its scheme and host
BaseUrl(impl, final_url) ==
    IF impl = "service" THEN final_url
    ELSE The({parsed_url.scheme \o <<":", "/", "/">> \o parsed_url.netloc : parsed_url \in {UrlParse(final_url)}})

\* make_absolute(url) of both implementations
MakeAbsolute(base_url, Url) ==
    The({IF url = <<>> \/ StartsWithAny(url, {HTTP, HTTPS, <<"d", "a", "t", "a", ":">>, <<"b", "l", "o", "b", ":">>, <<"/", "/">>, <<"#">>})
         THEN url
         ELSE UrlJoin(base_url, url) :
         url \in {Url}})

\* the prefixes proxy_url leaves alone
Passthrough(impl) ==
    {<<"d", "a", "t", "a", ":">>, <<"b", "l", "o", "b", ":">>, <<"#">>, <<"j", "a", "v", "a", "s", "c", "r", "i", "p", "t", ":">>, <<"m", "a", "i", "l", "t", "o", ":">>, <<"t", "e", "l", ":">>, PROXY_RESOURCE, PROXY_BASE}
    \cup (IF impl = "service" THEN {PROXY_PATH} ELSE {})

\* the proxy url of an absolute url: the service appends it to the relay path,
\* the endpoint passes it percent-encoded in the query
Encode(impl, url) ==
    IF impl = "service"
    THEN PROXY_BASE \o PROXY_PATH \o url
    ELSE PROXY_BASE \o PROXY_RESOURCE \o URL_PARAM \o Quote(url)

\* proxy_url(url) of both implementations
ProxyUrl(impl, scheme, Url) ==
    The({IF url = <<>> \/ StartsWithAny(url, Passthrough(impl)) THEN url
         ELSE IF StartsWith(url, <<"/", "/">>) THEN Encode(impl, scheme \o <<":">> \o url)
         ELSE Encode(impl, url) :
         url \in {Url}})

\* proxy_url(make_absolute(url)) for a page whose final url is final_url
Proxied(impl, Final_url, url) ==
    The({ProxyUrl(impl, UrlParse(final_url).scheme, MakeAbsolute(BaseUrl(impl, final_url), url)) :
         final_url \in {Final_url}})

\* one candidate of a srcset
SrcsetPart(impl, final_url, Part) ==
    The({IF Len(cut) = 2
         THEN Proxied(impl, final_url, Strip(cut[1])) \o <<" ">> \o Strip(cut[2])
         ELSE Proxied(impl, final_url, cut[1]) :
         cut \in {RSplit1(Strip(Part), <<" ">>)}})

\* the loop over srcset.split(',') and the ', '.join of its results
RewriteSrcset(impl, final_url, srcset) ==
    The({Join([i \in 1..Len(parts) |-> SrcsetPart(impl, final_url, parts[i])], <<",", " ">>) :
         parts \in {Split(srcset, <<",">>)}})

\* replace_url(match): the service strips the quotes before it looks at the
\* url, the endpoint after
ReplaceUrl(impl, final_url, Group1) ==
    The({IF url_content # <<>> /\ ~StartsWithAny(url_content, {HTTP, HTTPS, <<"d", "a", "t", "a", ":">>, <<"b", "l", "o", "b", ":">>, <<"/", "/">>})
         THEN <<"u", "r", "l", "(", "'">> \o Proxied(impl, final_url, stripped) \o <<"'", ")">>
         ELSE IF url_content # <<>> /\ StartsWithAny(url_content, {HTTP, HTTPS})
         THEN <<"u", "r", "l", "(", "'">> \o ProxyUrl(impl, UrlParse(final_url).scheme, stripped) \o <<"'", ")">>
         ELSE <<"u", "r", "l", "(">> \o group1 \o <<")">> :
         group1 \in {Group1},
         stripped \in {StripChars(Group1, {"'", "\""})},
         url_content \in {IF impl = "service" THEN StripChars(Group1, {"'", "\""}) ELSE Group1}})

\* re.sub(r'url\(([^)]+)\)', replace_url, style)
RECURSIVE RewriteStyle(_, _, _)
RewriteStyle(impl, final_url, Style) ==
    The({The({
        IF i = 0 \/ j = 0 THEN style
        ELSE IF j = 1 THEN Take(style, i + 3) \o RewriteStyle(impl, final_url, Drop(style, i + 3))
        ELSE Take(style, i - 1) \o ReplaceUrl(impl, final_url, SubSeq(style, i + 4, i + 2 + j))
             \o RewriteStyle(impl, final_url, Drop(style, i + 3 + j)) :
        j \in {IF i = 0 THEN 0 ELSE Find(Drop(style, i + 3), <<")">>)}}) :
        style \in {Style}, i \in {Find(Style, <<"u", "r", "l", "(">>)}})

(***************************************************************************)
(* Documents: the tree BeautifulSoup parses the markup into, as the        *)
(* elements the rewriter looks at.  head holds the children of <head> in   *)
(* document order, body every element outside it.                          *)
(***************************************************************************)
El(tag, attrs) == [tag |-> tag, attrs |-> attrs, text |-> <<>>]

NoAttrs == [x \in {} |-> <<>>]

Script(text) == [tag |-> "script", attrs |-> NoAttrs, text |-> text]

Has(el, a) == a \in DOMAIN el.attrs

\* el.get(a, '')
Get(el, a) == IF Has(el, a) THEN el.attrs[a] ELSE <<>>

\* el[a] = value
SetAttr(Elem, a, Value) ==
    The({[el EXCEPT !.attrs = [x \in DOMAIN el.attrs \cup {a} |-> IF x = a THEN value ELSE el.attrs[x]]] :
         el \in {Elem}, value \in {Value}})

\* del el[a]
DelAttr(Elem, a) == The({[el EXCEPT !.attrs = [x \in DOMAIN el.attrs \ {a} |-> el.attrs[x]]] : el \in {Elem}})

\* if value := el.get(a): el[a] = F(value)
MapAttr(Elem, a, F(_)) == The({IF Get(el, a) # <<>> THEN SetAttr(el, a, F(Get(el, a))) ELSE el : el \in {Elem}})

\* if el.get(a): del el[a]
DropAttr(Elem, a) == The({IF Get(el, a) # <<>> THEN DelAttr(el, a) ELSE el : el \in {Elem}})

\* soup.find_all(...) in document order
AllElements(doc) == doc.head \o doc.body

CSP_NAME == <<"C", "o", "n", "t", "e", "n", "t", "-", "S", "e", "c", "u", "r", "i", "t", "y", "-", "P", "o", "l", "i", "c", "y">>

\* the tests on one <meta> that end in meta.decompose(); the endpoint looks
\* for x-frame-options in http-equiv once more
IsBlockingMeta(impl, el) ==
    /\ el.tag = "meta"
    /\ \/ Lower(Get(el, "http-equiv")) \in {<<"x", "-", "f", "r", "a", "m", "e", "-", "o", "p", "t", "i", "o", "n", "s">>, <<"c", "o", "n", "t", "e", "n", "t", "-", "s", "e", "c", "u", "r", "i", "t", "y", "-", "p", "o", "l", "i", "c", "y">>, <<"f", "r", "a", "m", "e", "-", "o", "p", "t", "i", "o", "n", "s">>}
       \/ Contains(Lower(Get(el, "name")), <<"c", "o", "n", "t", "e", "n", "t", "-", "s", "e", "c", "u", "r", "i", "t", "y", "-", "p", "o", "l", "i", "c", "y">>)
       \/ Contains(Lower(Get(el, "name")), <<"c", "s", "p">>)
       \/ Contains(Lower(Get(el, "content")), <<"c", "o", "n", "t", "e", "n", "t", "-", "s", "e", "c", "u", "r", "i", "t", "y", "-", "p", "o", "l", "i", "c", "y">>)
       \/ impl = "view" /\ Has(el, "http-equiv") /\ Contains(Lower(Get(el, "http-equiv")), <<"x", "-", "f", "r", "a", "m", "e", "-", "o", "p", "t", "i", "o", "n", "s">>)

\* re.sub(r'Content-Security-Policy[^;]*;?', '', text, flags=re.IGNORECASE)
RECURSIVE StripCspText(_)
StripCspText(Text) ==
    The({The({
        IF i = 0 THEN text
        ELSE Take(text, i - 1) \o (IF j = 0 THEN <<>> ELSE StripCspText(Drop(text, i - 1 + Len(CSP_NAME) + j))) :
        j \in {IF i = 0 THEN 0 ELSE Find(Drop(text, i - 1 + Len(CSP_NAME)), <<";">>)}}) :
        text \in {Text}, i \in {Find(Lower(Text), Lower(CSP_NAME))}})

\* the pass over <script> and <style>
StripCsp(el) ==
    IF el.tag \in {"script", "style"} /\ Contains(el.text, CSP_NAME)
    THEN [el EXCEPT !.text = StripCspText(el.text)]
    ELSE el

KeepAndStrip(impl, els) ==
    The({[i \in 1..Len(kept) |-> StripCsp(kept[i])] :
         kept \in {SelectSeq(els, LAMBDA el : ~IsBlockingMeta(impl, el))}})

\* ProxyService._remove_blocking_headers, and the same passes of proxy_website
RemoveBlockingHeaders(impl, Doc) ==
    The({[doc EXCEPT !.head = KeepAndStrip(impl, doc.head), !.body = KeepAndStrip(impl, doc.body)] :
         doc \in {Doc}})

\* seeded fault: of a srcset only the first candidate is kept
SrcsetOf_FirstOnly(impl, final_url, el) ==
    MapAttr(el, "srcset", LAMBDA v : SrcsetPart(impl, final_url, Split(v, <<",">>)[1]))

\* the srcset loop on one element
SrcsetOf(impl, final_url, el) == MapAttr(el, "srcset", LAMBDA v : RewriteSrcset(impl, final_url, v))

\* the passes of ProxyService._proxy_resources over one element
ProxyElementService(final_url, Elem) ==
    The({LET P(v) == Proxied("service", final_url, v)
             A(v) == MakeAbsolute(final_url, v)
         IN
         CASE el.tag = "link" /\ Has(el, "rel") ->
                 DropAttr(DropAttr(MapAttr(el, "href", P), "integrity"), "crossorigin")
           [] el.tag = "script" /\ Has(el, "src") ->
                 DropAttr(DropAttr(MapAttr(el, "src", P), "integrity"), "crossorigin")
           [] el.tag = "img" -> SrcsetOf("service", final_url, MapAttr(el, "src", P))
           [] el.tag \in {"source", "video", "audio", "object", "embed"} ->
                 MapAttr(SrcsetOf("service", final_url, MapAttr(el, "src", P)), "data", P)
           [] el.tag = "a" ->
                 IF StartsWithAny(Get(el, "href"), {<<"#">>, <<"j", "a", "v", "a", "s", "c", "r", "i", "p", "t", ":">>, <<"m", "a", "i", "l", "t", "o", ":">>, <<"t", "e", "l", ":">>})
                 THEN el ELSE MapAttr(el, "href", A)
           [] el.tag = "form" -> MapAttr(el, "action", A)
           [] OTHER -> el :
         el \in {Elem}})

\* the passes of proxy_website over one element
ProxyElementView(final_url, Elem) ==
    The({LET P(v) == Proxied("view", final_url, v)
             A(v) == MakeAbsolute(BaseUrl("view", final_url), v)
         IN
         CASE el.tag = "link" /\ Has(el, "rel") ->
                 DropAttr(DropAttr(MapAttr(el, "href", P), "integrity"), "crossorigin")
           [] el.tag = "script" /\ Has(el, "src") ->
                 DropAttr(DropAttr(MapAttr(el, "src", P), "integrity"), "crossorigin")
           [] el.tag = "img" -> SrcsetOf("view", final_url, MapAttr(el, "src", P))
           [] el.tag = "source" -> SrcsetOf("view", final_url, MapAttr(el, "src", P))
           [] el.tag \in {"video", "audio", "embed"} -> MapAttr(el, "src", P)
           [] el.tag = "object" -> MapAttr(MapAttr(el, "src", P), "data", P)
           [] el.tag = "a" ->
                 IF StartsWithAny(Get(el, "href"), {<<"#">>, <<"j", "a", "v", "a", "s", "c", "r", "i", "p", "t", ":">>, <<"m", "a", "i", "l", "t", "o", ":">>, <<"t", "e", "l", ":">>})
                 THEN el ELSE MapAttr(el, "href", A)
           [] el.tag = "form" -> MapAttr(el, "action", A)
           [] el.tag = "iframe" -> MapAttr(el, "src", A)
           [] OTHER -> el :
         el \in {Elem}})

\* the pass over every element with a style attribute
StyleOf(impl, final_url, Elem) ==
    The({IF Has(el, "style") /\ Contains(Get(el, "style"), <<"u", "r", "l", "(">>)
         THEN SetAttr(el, "style", RewriteStyle(impl, final_url, Get(el, "style")))
         ELSE el :
         el \in {Elem}})

ProxyElement(impl, final_url, el) ==
    StyleOf(impl, final_url,
        IF impl = "service" THEN ProxyElementService(final_url, el) ELSE ProxyElementView(final_url, el))

\* ProxyService._proxy_resources, and the same passes of proxy_website
ProxyResources(impl, final_url, Doc) ==
    The({[doc EXCEPT !.head = [i \in 1..Len(doc.head) |-> ProxyElement(impl, final_url, doc.head[i])],
                !.body = [i \in 1..Len(doc.body) |-> ProxyElement(impl, final_url, doc.body[i])]] :
         doc \in {Doc}})

IsBase(el) == el.tag = "base"

\* the href given to <base>: the service the proxy url of the page, the
\* endpoint the scheme and host of the page
BaseHref(impl, final_url) ==
    IF impl = "service" THEN PROXY_BASE \o PROXY_PATH \o final_url ELSE BaseUrl("view", final_url)

\* els with the href of its first <base> set
WithFirstBase(els, href) ==
    The({[els EXCEPT ![i] = SetAttr(els[i], "href", href)] : i \in {Min({k \in 1..Len(els) : IsBase(els[k])})}})

\* if not soup.find('base'): a new one goes first into <head>, if there is a
\* <head>; else the href of the first <base> is set
EnsureBase(impl, final_url, Doc) ==
    The({IF SelectSeq(AllElements(doc), IsBase) = <<>>
        THEN IF doc.has_head
             THEN [doc EXCEPT !.head = <<El("base", [href |-> BaseHref(impl, final_url)])>> \o @]
             ELSE doc
        ELSE IF SelectSeq(doc.head, IsBase) # <<>>
        THEN [doc EXCEPT !.head = WithFirstBase(@, BaseHref(impl, final_url))]
        ELSE [doc EXCEPT !.body = WithFirstBase(@, BaseHref(impl, final_url))] :
         doc \in {Doc}})

PermissiveCsp ==
    El("meta", [x \in {"http-equiv", "content"} |->
                 IF x = "http-equiv" THEN CSP_NAME ELSE <<"d", "e", "f", "a", "u", "l", "t", "-", "s", "r", "c", " ", "*", " ", "'", "u", "n", "s", "a", "f", "e", "-", "i", "n", "l", "i", "n", "e", "'", " ", "'", "u", "n", "s", "a", "f", "e", "-", "e", "v", "a", "l", "'", " ", "d", "a", "t", "a", ":", " ", "b", "l", "o", "b", ":", ";">>])

\* the inserted <script>; its text stands for the rewriteProxyUrls function
\* and the calls that run it
ProxyRewriteScript == Script(<<"r", "e", "w", "r", "i", "t", "e", "P", "r", "o", "x", "y", "U", "r", "l", "s", "(", ")">>)

IsCspMeta(el) ==
    el.tag = "meta" /\ Has(el, "http-equiv") /\ Contains(Lower(Get(el, "http-equiv")), <<"c", "o", "n", "t", "e", "n", "t", "-", "s", "e", "c", "u", "r", "i", "t", "y", "-", "p", "o", "l", "i", "c", "y">>)

\* els without its first <meta http-equiv=content-security-policy>, if it has one
WithoutFirstCsp(els) ==
    The({IF found = {} THEN els ELSE Take(els, Min(found) - 1) \o Drop(els, Min(found)) :
         found \in {{k \in 1..Len(els) : IsCspMeta(els[k])}}})

\* if soup.head: the permissive policy, then the script, each inserted first
InjectAids(impl, Doc) ==
    The({IF doc.has_head
         THEN [doc EXCEPT !.head = <<ProxyRewriteScript, PermissiveCsp>>
                                    \o (IF impl = "view" THEN WithoutFirstCsp(@) ELSE @)]
         ELSE doc :
         doc \in {Doc}})

\* ProxyService._add_base_and_scripts, and the same statements of proxy_website
AddBaseAndScripts(impl, final_url, doc) == InjectAids(impl, EnsureBase(impl, final_url, doc))

\* ProxyService._process_html(html_content, base_url) and lines 213-474 of
\* proxy_website, on the parsed document
Rewrite(impl, final_url, doc) ==
    AddBaseAndScripts(impl, final_url, ProxyResources(impl, final_url, RemoveBlockingHeaders(impl, doc)))

(***************************************************************************)
(* The inserted script at work in the browser                              *)
(***************************************************************************)
\* window.location.origin of the page that shows the rewritten document
ORIGIN == <<"h", "t", "t", "p", "s", ":", "/", "/", "a", "p", "p", ".", "t", "e", "s", "t">>

\* s.replace(/\{\{PROXY_BASE\}\}/g, proxyBase)
WithOrigin(S) == The({Join(Split(s, PROXY_BASE), ORIGIN) : s \in {S}})

\* the attribute of an element that matches [a*="{{PROXY_BASE}}"] is patched
Patched(Elem, a) ==
    The({IF Has(el, a) /\ Contains(el.attrs[a], PROXY_BASE)
         THEN SetAttr(el, a, WithOrigin(el.attrs[a])) ELSE el :
         el \in {Elem}})

\* the querySelectorAll loops of rewriteProxyUrls over one element: link[href],
\* script[src], img[src], [srcset], [style]
PatchedElement(el) ==
    Patched(Patched(IF el.tag = "link" THEN Patched(el, "href")
                    ELSE IF el.tag \in {"script", "img"} THEN Patched(el, "src")
                    ELSE el,
                    "srcset"), "style")

\* els with the href of its first <base> patched
WithPatchedBase(Els) ==
    The({[els EXCEPT ![i] = Patched(els[i], "href")] :
         els \in {Els}, i \in {Min({k \in 1..Len(Els) : IsBase(Els[k])})}})

\* document.querySelector('base'), patched by the script of the service; the
\* script of the endpoint has no such statement
PatchedBase(impl, Doc) ==
    The({IF impl # "service" THEN doc
         ELSE IF SelectSeq(doc.head, IsBase) # <<>> THEN [doc EXCEPT !.head = WithPatchedBase(@)]
         ELSE IF SelectSeq(doc.body, IsBase) # <<>> THEN [doc EXCEPT !.body = WithPatchedBase(@)]
         ELSE doc :
         doc \in {Doc}})

\* the script is in the document
HasRewriteScript(doc) == \E i \in 1..Len(doc.head) : doc.head[i] = ProxyRewriteScript

\* rewriteProxyUrls(), run by the browser if the document holds the script
RewriteProxyUrls(impl, Doc) ==
    The({IF HasRewriteScript(doc)
         THEN [doc EXCEPT !.head = [i \in 1..Len(@) |-> PatchedElement(@[i])],
                          !.body = [i \in 1..Len(@) |-> PatchedElement(@[i])]]
         ELSE doc :
         doc \in {PatchedBase(impl, Doc)}})

(***************************************************************************)
(* The pages the rewriter is given                                         *)
(***************************************************************************)
FinalUrlDeep == <<"h", "t", "t", "p", "s", ":", "/", "/", "e", ".", "c", "o", "m", "/", "a", "/", "p">>
FinalUrlRoot == <<"h", "t", "t", "p", "s", ":", "/", "/", "e", ".", "c", "o", "m", "/">>

FinalUrls == {FinalUrlDeep, FinalUrlRoot}

OldBase == El("base", [href |-> <<"h", "t", "t", "p", "s", ":", "/", "/", "e", ".", "c", "o", "m", "/", "o", "l", "d", "/">>])
OtherBase == El("base", [href |-> <<"h", "t", "t", "p", "s", ":", "/", "/", "c", ".", "i", "o", "/">>])

\* a document with or without <head>, with <base> elements in and outside it
Shape(has_head, head, body) == [has_head |-> has_head, head |-> head, body |-> body]

Shapes ==
    {Shape(FALSE, <<>>, <<>>), Shape(FALSE, <<>>, <<OldBase>>),
     Shape(TRUE, <<>>, <<>>), Shape(TRUE, <<OldBase>>, <<>>),
     Shape(TRUE, <<OldBase, OtherBase>>, <<>>), Shape(TRUE, <<>>, <<OldBase>>)}

Meta(key, value, content) ==
    El("meta", [x \in {key, "content"} |-> IF x = key THEN value ELSE content])

\* the elements a page may hold
Samples ==
    {El("link", [rel |-> <<"s", "t", "y", "l", "e", "s", "h", "e", "e", "t">>, href |-> <<"s", ".", "c", "s", "s">>, integrity |-> <<"s", "h", "a", "2", "5", "6", "-", "x">>, crossorigin |-> <<>>]),
     El("link", [href |-> <<"h", "t", "t", "p", "s", ":", "/", "/", "c", ".", "i", "o", "/", "s", ".", "c", "s", "s">>]),
     El("script", [src |-> <<"/", "/", "c", ".", "i", "o", "/", "a", ".", "j", "s">>, integrity |-> <<"s", "h", "a", "2", "5", "6", "-", "y">>, crossorigin |-> <<"a", "n", "o", "n", "y", "m", "o", "u", "s">>]),
     Script(<<"v", "a", "r", " ", "p", " ", "=", " ", "'", "C", "o", "n", "t", "e", "n", "t", "-", "S", "e", "c", "u", "r", "i", "t", "y", "-", "P", "o", "l", "i", "c", "y", ":", " ", "x", ";", " ", "y", "'", ";">>),
     El("img", [src |-> <<"/", "i", "/", "a", ".", "p", "n", "g">>, srcset |-> <<"a", ".", "p", "n", "g", " ", "1", "x", ",", " ", "b", ".", "p", "n", "g", " ", "2", "x">>]),
     El("img", [src |-> <<"d", "a", "t", "a", ":", "i", "m", "a", "g", "e", "/", "p", "n", "g", ";", "b", "a", "s", "e", "6", "4", ",", "A", "A">>]),
     El("img", [srcset |-> <<"h", "t", "t", "p", "s", ":", "/", "/", "c", ".", "i", "o", "/", "a", ".", "p", "n", "g", " ", "4", "8", "0", "w", ",", " ", " ", "b", ".", "p", "n", "g", " ", " ", "8", "0", "0", "w", ",", " ", "c", ".", "p", "n", "g">>]),
     El("img", [src |-> <<"h", "t", "t", "p", "s", ":", "/", "/", "c", ".", "i", "o", "/", "a", ".", "p", "n", "g", "?", "x", "=", "1", "&", "y", "=", "2", "#", "f">>]),
     El("img", [src |-> Encode("service", <<"h", "t", "t", "p", "s", ":", "/", "/", "e", ".", "c", "o", "m", "/", "a", ".", "p", "n", "g">>)]),
     El("img", [src |-> Encode("view", <<"h", "t", "t", "p", "s", ":", "/", "/", "e", ".", "c", "o", "m", "/", "a", ".", "p", "n", "g">>)]),
     El("source", [src |-> <<"v", ".", "m", "p", "4">>, srcset |-> <<".", ".", "/", "a", ".", "w", "e", "b", "p", " ", "2", "x">>]),
     El("video", [src |-> <<".", ".", "/", "v", ".", "m", "p", "4">>]),
     El("audio", [src |-> <<"b", "l", "o", "b", ":", "h", "t", "t", "p", "s", ":", "/", "/", "e", ".", "c", "o", "m", "/", "1">>]),
     El("object", [data |-> <<"o", ".", "s", "w", "f">>]),
     El("embed", [src |-> <<"e", ".", "s", "w", "f">>]),
     El("a", [href |-> <<"p", "2">>]),
     El("a", [href |-> <<"#", "t", "o", "p">>]),
     El("a", [href |-> <<"m", "a", "i", "l", "t", "o", ":", "a", "@", "e", ".", "c", "o", "m">>]),
     El("form", [action |-> <<"/", "s", "u", "b", "m", "i", "t">>]),
     El("iframe", [src |-> <<"f", ".", "h", "t", "m", "l">>]),
     El("div", [style |-> <<"b", "a", "c", "k", "g", "r", "o", "u", "n", "d", ":", "u", "r", "l", "(", "/", "/", "c", ".", "i", "o", "/", "x", ".", "p", "n", "g", ")">>]),
     El("div", [style |-> <<"b", "a", "c", "k", "g", "r", "o", "u", "n", "d", ":", "u", "r", "l", "(", "'", "i", "/", "a", ".", "p", "n", "g", "'", ")">>]),
     El("div", [style |-> <<"b", "a", "c", "k", "g", "r", "o", "u", "n", "d", ":", "u", "r", "l", "(", "\"", "h", "t", "t", "p", "s", ":", "/", "/", "c", ".", "i", "o", "/", "y", ".", "p", "n", "g", "\"", ")", ";", " ", "c", "o", "l", "o", "r", ":", "r", "e", "d">>]),
     Meta("http-equiv", <<"C", "o", "n", "t", "e", "n", "t", "-", "S", "e", "c", "u", "r", "i", "t", "y", "-", "P", "o", "l", "i", "c", "y">>, <<"d", "e", "f", "a", "u", "l", "t", "-", "s", "r", "c", " ", "'", "s", "e", "l", "f", "'">>),
     Meta("http-equiv", <<"X", "-", "F", "r", "a", "m", "e", "-", "O", "p", "t", "i", "o", "n", "s">>, <<"D", "E", "N", "Y">>),
     Meta("name", <<"c", "s", "p", "-", "n", "o", "n", "c", "e">>, <<"n">>),
     Meta("name", <<"v", "i", "e", "w", "p", "o", "r", "t">>, <<"w", "i", "d", "t", "h", "=", "1">>)}

\* the documents: one shape, one element; <link>, <script> and <meta> lie in
\* <head> when there is one
Placed(shape, el) ==
    IF shape.has_head /\ el.tag \in {"link", "script", "meta"}
    THEN [shape EXCEPT !.head = Append(@, el)]
    ELSE [shape EXCEPT !.body = Append(@, el)]

Documents == {Placed(shape, el) : shape \in Shapes, el \in Samples}

(***************************************************************************)
(* The rewriter at work: the markup of a rendered page is rewritten, and   *)
(* what came out may be rewritten once more.                               *)
(***************************************************************************)
RenderIdle ==
    /\ env = [workers |-> {}, urls |-> {}, faulty |-> {}, raises |-> {}]
    /\ call = [w \in Workers |-> IdleCall]
    /\ handles = [h \in HandleIds |-> Absent]
    /\ leaked = {}

\* nothing is loaded in the browser yet
NoDocument == [has_head |-> FALSE, head |-> <<>>, body |-> <<>>]

InitRewrite ==
    /\ RenderIdle
    /\ relay = NoRelay
    /\ audio = NoAudio
    /\ \E impl \in Impls, final_url \in FinalUrls, doc \in Documents :
          rw = [stage |-> "parsed", impl |-> impl, final_url |-> final_url,
                html |-> doc, prev |-> doc, out |-> doc, dom |-> NoDocument]

\* the document is parsed, rewritten and serialized again
Rewritten ==
    /\ rw.stage \in {"parsed", "rewritten"}
    /\ rw' = [rw EXCEPT !.stage = IF @ = "parsed" THEN "rewritten" ELSE "rewritten again",
                        !.prev = rw.out,
                        !.out = Rewrite(rw.impl, rw.final_url, rw.out)]
    /\ UNCHANGED <<render_vars, relay, audio>>

\* ProxyService._process_html(html_content, base_url)
ProcessHtmlService ==
    /\ rw.impl = "service"
    /\ Rewritten

\* the statements of proxy_website between page.content() and final_html
ProcessHtmlView ==
    /\ rw.impl = "view"
    /\ Rewritten

\* the browser loads the rewritten document and runs its scripts: at
\* DOMContentLoaded, and once more after the delay
Loaded ==
    /\ rw.stage = "rewritten"
    /\ rw' = [rw EXCEPT !.stage = "loaded",
                        !.dom = RewriteProxyUrls(rw.impl, RewriteProxyUrls(rw.impl, rw.out))]
    /\ UNCHANGED <<render_vars, relay, audio>>

NextRewrite == ProcessHtmlService \/ ProcessHtmlView \/ Loaded

SpecRewrite == InitRewrite /\ [][NextRewrite]_vars

(***************************************************************************)
(* Properties of the rewriter                                              *)
(***************************************************************************)
\* C11: the rewrite is idempotent: rewriting the rewritten document once more
\* with the same base gives the same document.
C11_Idempotent == rw.stage = "rewritten again" => rw.out = rw.prev

\* a url rewriting leaves alone by design
IsPassthroughUrl(u) == u = <<>> \/ StartsWithAny(u, {<<"d", "a", "t", "a", ":">>, <<"b", "l", "o", "b", ":">>, <<"#">>, <<"j", "a", "v", "a", "s", "c", "r", "i", "p", "t", ":">>, <<"m", "a", "i", "l", "t", "o", ":">>, <<"t", "e", "l", ":">>})

\* a url that leads through the relay, in either encoding
IsRelayUrl(u) == StartsWith(u, PROXY_BASE \o PROXY_PATH) \/ StartsWith(u, PROXY_BASE \o PROXY_RESOURCE \o URL_PARAM)

\* the candidates of a srcset value: url and descriptor
Candidate(part) ==
    LET cut == RSplit1(Strip(part), <<" ">>) IN
    IF Len(cut) = 2 THEN [url |-> Strip(cut[1]), descriptor |-> Strip(cut[2])]
    ELSE [url |-> cut[1], descriptor |-> <<>>]

Candidates(srcset) == LET parts == Split(srcset, <<",">>) IN [i \in 1..Len(parts) |-> Candidate(parts[i])]

\* the urls in the url(...) of a style
RECURSIVE StyleUrls(_)
StyleUrls(style) ==
    LET i == Find(style, <<"u", "r", "l", "(">>)
        rest == Drop(style, i + 3)
        j == Find(rest, <<")">>)
    IN
    IF i = 0 \/ j = 0 THEN {}
    ELSE IF j = 1 THEN StyleUrls(rest)
    ELSE {StripChars(Take(rest, j - 1), {"'", "\""})} \cup StyleUrls(Drop(rest, j))

\* the urls an element loads resources from
ResourceUrls(el) ==
    (IF el.tag = "link" /\ Has(el, "href") THEN {Get(el, "href")} ELSE {})
    \cup (IF el.tag \in {"script", "img", "source", "video", "audio", "object", "embed"} /\ Has(el, "src")
          THEN {Get(el, "src")} ELSE {})
    \cup (IF el.tag \in {"img", "source", "video", "audio", "object", "embed"} /\ Has(el, "srcset")
          THEN {Candidates(Get(el, "srcset"))[i].url : i \in 1..Len(Candidates(Get(el, "srcset")))} ELSE {})
    \cup (IF el.tag \in {"source", "video", "audio", "object", "embed"} /\ Has(el, "data")
          THEN {Get(el, "data")} ELSE {})
    \cup (IF Has(el, "style") THEN StyleUrls(Get(el, "style")) ELSE {})

ElementsOf(doc) == {AllElements(doc)[i] : i \in 1..Len(AllElements(doc))}

\* C13: the rewrite is total: after it every resource-bearing attribute (link
\* href, script src, img src and srcset, media src, srcset and data, every
\* url(...) of an inline style) holds a passthrough url or a proxy url; no
\* absolute or protocol-relative reference to a resource is left as it was.
C13_Total ==
    rw.stage # "parsed" =>
        \A el \in ElementsOf(rw.out) : \A u \in ResourceUrls(el) : IsPassthroughUrl(u) \/ IsRelayUrl(u)

\* C14: after the rewrite exactly one <base> exists, it is in <head>, and its
\* href is the proxy-encoded base url, whatever the document held before.
C14_OneBase ==
    rw.stage # "parsed" =>
        /\ Len(SelectSeq(AllElements(rw.out), IsBase)) = 1
        /\ Len(SelectSeq(rw.out.head, IsBase)) = 1
        /\ IsRelayUrl(Get(SelectSeq(rw.out.head, IsBase)[1], "href"))

HasSrcset(el) == el.tag \in {"img", "source"} /\ Has(el, "srcset")

\* the url the relay fetches for a proxy url
Target(proxy_url) ==
    IF StartsWith(proxy_url, PROXY_BASE \o PROXY_PATH)
    THEN Drop(proxy_url, Len(PROXY_BASE \o PROXY_PATH))
    ELSE Unquote(Drop(proxy_url, Len(PROXY_BASE \o PROXY_RESOURCE \o URL_PARAM)))

\* the absolute url a reference of the page stands for
Resolved(impl, final_url, url) ==
    IF StartsWith(url, <<"/", "/">>) THEN UrlParse(final_url).scheme \o <<":">> \o url
    ELSE MakeAbsolute(BaseUrl(impl, final_url), url)

IsProxied(u) == StartsWithAny(u, {PROXY_BASE, PROXY_PATH, PROXY_RESOURCE})

\* the proxied references of a document, each with the tag of its element
ProxiedRefs(doc) ==
    UNION {{<<el.tag, u>> : u \in {v \in ResourceUrls(el) : IsProxied(v)}} : el \in ElementsOf(doc)}

\* C23: the second run of the rewrite leaves every url alone that the first
\* run proxied: each proxied reference of its input is a reference of its
\* output, under the same tag, as it was.
C23_ProxiedUntouched ==
    rw.stage = "rewritten again" =>
        \A ref \in ProxiedRefs(rw.prev) : ref \in ProxiedRefs(rw.out)

\* how many elements of els satisfy the test
Count(els, Test(_)) == Len(SelectSeq(els, Test))

IsPermissiveCsp(el) == el = PermissiveCsp

IsRewriteScript(el) == el = ProxyRewriteScript

\* C24: however often a document with a <head> is rewritten, its head holds
\* exactly one <base>, one permissive CSP <meta> and one url-patching script.
C24_OneOfEach ==
    (rw.stage \in {"rewritten", "rewritten again"} /\ rw.out.has_head) =>
        /\ Count(rw.out.head, IsBase) = 1
        /\ Count(rw.out.head, IsPermissiveCsp) = 1
        /\ Count(rw.out.head, IsRewriteScript) = 1

\* a reference that is relative to the page: no scheme, no authority, not a
\* fragment, not proxied
IsRelative(u) ==
    /\ u # <<>>
    /\ ~StartsWithAny(u, {HTTP, HTTPS, <<"/", "/">>, <<"d", "a", "t", "a", ":">>, <<"b", "l", "o", "b", ":">>, <<"#">>, <<"j", "a", "v", "a", "s", "c", "r", "i", "p", "t", ":">>, <<"m", "a", "i", "l", "t", "o", ":">>, <<"t", "e", "l", ":">>})
    /\ ~IsProxied(u)

HasSrc(el) == el.tag \in {"img", "script", "source", "video", "audio", "embed"} /\ Has(el, "src")

\* C25: a relative src is resolved against the final url of the page, path
\* included, by relative-url joining, in both implementations: the target of
\* the proxy url is urljoin(final_url, src).
C25_ResolvedAgainstPage ==
    rw.stage = "rewritten" =>
        LET ins == SelectSeq(AllElements(rw.html), HasSrc)
            outs == SelectSeq(AllElements(rw.out), HasSrc)
        IN
        /\ Len(outs) = Len(ins)
        /\ \A k \in 1..Len(ins) :
              IsRelative(Get(ins[k], "src")) =>
                  /\ IsRelayUrl(Get(outs[k], "src"))
                  /\ Target(Get(outs[k], "src")) = UrlJoin(rw.final_url, Get(ins[k], "src"))

\* the elements whose integrity and crossorigin the rewriter deletes
IsLoader(el) == (el.tag = "link" /\ Has(el, "rel")) \/ (el.tag = "script" /\ Has(el, "src"))

\* C26: after the rewrite no <link rel> and no <script src> has an integrity
\* or a crossorigin attribute, whatever its value was, the empty value of an
\* attribute written without one included.
C26_NoIntegrity ==
    rw.stage # "parsed" =>
        \A el \in ElementsOf(rw.out) :
            IsLoader(el) => ~Has(el, "integrity") /\ ~Has(el, "crossorigin")

\* the attributes of a document that still hold the placeholder
Placeholders(doc) ==
    {<<el.tag, a>> : el \in ElementsOf(doc), a \in {"href", "src", "data", "srcset", "style"}}
    \cap UNION {{<<el.tag, a>> : a \in {x \in DOMAIN el.attrs : Contains(el.attrs[x], PROXY_BASE)}} :
                el \in ElementsOf(doc)}

\* C27: once the browser has run the inserted script, no attribute of the
\* document holds the placeholder of the serving origin any more: the script
\* reaches every attribute the rewriter writes the placeholder into.
C27_ScriptCoversAll ==
    (rw.stage = "loaded" /\ HasRewriteScript(rw.out)) => Placeholders(rw.dom) = {}

(***************************************************************************)
(* The relay: a reference of a rewritten page is followed, the request is  *)
(* routed, the target is fetched and answered                              *)
(***************************************************************************)
\* the resources a page refers to: plain, with a query, with a fragment, with
\* characters that are escaped already
Targets ==
    {<<"h", "t", "t", "p", "s", ":", "/", "/", "c", ".", "i", "o", "/", "a", ".", "p", "n", "g">>, <<"h", "t", "t", "p", "s", ":", "/", "/", "c", ".", "i", "o", "/", "a", ".", "p", "n", "g", "?", "x", "=", "1", "&", "y", "=", "2">>, <<"h", "t", "t", "p", "s", ":", "/", "/", "c", ".", "i", "o", "/", "i", ".", "s", "v", "g", "#", "i", "c", "o", "n">>,
     <<"h", "t", "t", "p", ":", "/", "/", "c", ".", "i", "o", "/", "a", "%", "2", "0", "b", ".", "p", "n", "g", "?", "q", "=", "a", "+", "b">>}

NoRequest == [method |-> "", path |-> <<>>, query |-> <<>>]

\* the path a normalising hop leaves: every run of slashes is one slash
Collapse(S) ==
    The({Concat([i \in 1..Len(s) |-> IF i > 1 /\ s[i] = "/" /\ s[i - 1] = "/" THEN <<>> ELSE <<s[i]>>]) :
         s \in {S}})

\* the request line of a GET for a reference: the placeholder gives way to the
\* serving origin, the fragment stays with the client, the query starts at the
\* first question mark
RequestFor(Proxy_url, collapsed) ==
    The({The({[method |-> "GET",
               path |-> IF collapsed THEN Collapse(Split1(sent, <<"?">>)[1]) ELSE Split1(sent, <<"?">>)[1],
               query |-> IF Contains(sent, <<"?">>) THEN Split1(sent, <<"?">>)[2] ELSE <<>>] :
              sent \in {Split1(after, <<"#">>)[1]}}) :
         after \in {IF StartsWith(Proxy_url, PROXY_BASE) THEN Drop(Proxy_url, Len(PROXY_BASE))
                    ELSE Proxy_url}})

\* the requests a client of the relay endpoint writes by hand
OwnRequests ==
    {[method |-> m, path |-> PROXY_RESOURCE, query |-> q] :
        m \in {"GET", "OPTIONS"},
        q \in {<<>>, <<"u", "r", "l", "=">> \o Quote(<<"h", "t", "t", "p", "s", ":", "/", "/", "c", ".", "i", "o", "/", "a", ".", "p", "n", "g">>), <<"v", "=", "1">>}}

\* urlpatterns: the view a path is dispatched to
Resolve(path) ==
    IF path = PROXY_RESOURCE THEN "proxy_resource"
    ELSE IF StartsWith(path, PROXY_PATH) THEN "proxy_path_view"
    ELSE "404"

\* the <path:url> part of a path routed to proxy_path_view
Captured(path) == Drop(path, Len(PROXY_PATH))

\* '+' stands for a space in a query string
PlusToSpace(s) == [i \in 1..Len(s) |-> IF s[i] = "+" THEN " " ELSE s[i]]

\* one key=value field of a query string, percent-decoded
Field(F) ==
    The({[name |-> Unquote(PlusToSpace(cut[1])),
          value |-> IF Len(cut) = 2 THEN Unquote(PlusToSpace(cut[2])) ELSE <<>>] :
         cut \in {Split1(F, <<"=">>)}})

\* request.GET: the fields of the query string
QueryDict(Query) ==
    The({[i \in 1..Len(fields) |-> Field(fields[i])] :
         fields \in {IF Query = <<>> THEN <<>> ELSE Split(Query, <<"&">>)}})

\* request.GET.get(key): the last value given for the key, None without one
QueryGet(Query_dict, key) ==
    The({IF at = {} THEN None ELSE Query_dict[Max(at)].value :
         at \in {{i \in 1..Len(Query_dict) : Query_dict[i].name = key}}})

\* the target proxy_path_view fetches: the captured path with the double slash
\* of its scheme restored, and the query string of the request appended
DecodePath(Url, query) ==
    The({(IF StartsWith(url, <<"h", "t", "t", "p", "s", ":", "/">>) /\ ~StartsWith(url, HTTPS)
          THEN HTTPS \o Drop(url, Len(<<"h", "t", "t", "p", "s", ":", "/">>))
          ELSE IF StartsWith(url, <<"h", "t", "t", "p", ":", "/">>) /\ ~StartsWith(url, HTTP)
               THEN HTTP \o Drop(url, Len(<<"h", "t", "t", "p", ":", "/">>))
               ELSE url)
         \o (IF query = <<>> THEN <<>> ELSE <<"?">> \o query) :
         url \in {Url}})

(***************************************************************************)
(* What the upstream does                                                  *)
(***************************************************************************)
UpstreamHeaders ==
    [h \in {"Content-Type", "Cache-Control", "Expires", "Content-Encoding",
            "Transfer-Encoding", "Content-Length"} |->
        CASE h = "Content-Type" -> "text/css"
          [] h = "Cache-Control" -> "max-age=60"
          [] h = "Expires" -> "Thu, 01 Jan 2026 00:00:00 GMT"
          [] h = "Content-Encoding" -> "gzip"
          [] h = "Transfer-Encoding" -> "chunked"
          [] h = "Content-Length" -> "300"]

Restrict(f, S) == [x \in S |-> f[x]]

\* the bytes of the body of a good answer: as the resource is, and as the
\* upstream sends it when it compresses it
Length(compressed) == IF compressed THEN 120 ELSE 300

\* a number as a header holds it
Decimal(n) == CASE n = 120 -> "120" [] n = 300 -> "300"

\* the headers of an answer: any part of the above; Content-Length counts the
\* bytes sent
HeadersOf(S) ==
    [h \in S |-> IF h = "Content-Length" THEN Decimal(Length("Content-Encoding" \in S))
                 ELSE UpstreamHeaders[h]]

\* response.iter_content(chunk_size=8192): the bytes the chunks add up to;
\* requests undoes the Content-Encoding as it reads
IterContentLength(response) == Length(FALSE)

Statuses == {200, 404, 500}

\* the body the upstream sends with a status
ContentOf(status) == IF status < 400 THEN "resource" ELSE "error page"

\* the answers of an upstream that can be reached
Answers(names) ==
    {[kind |-> "response", status |-> st, headers |-> HeadersOf(S),
      content |-> ContentOf(st)] :
        st \in Statuses, S \in SUBSET names}

\* the exceptions requests.get ends with when the upstream cannot be reached,
\* and an exception outside the hierarchy of requests
ConnectionRefused ==
    [kind |-> "fault", cls |-> "ConnectionError",
     msg |-> <<"M", "a", "x", " ", "r", "e", "t", "r", "i", "e", "s", " ", "e", "x", "c", "e", "e", "d", "e", "d", " ", "(", "C", "a", "u", "s", "e", "d", " ", "b", "y", " ", "N", "e", "w", "C", "o", "n", "n", "e", "c", "t", "i", "o", "n", "E", "r", "r", "o", "r", ":", " ", "C", "o", "n", "n", "e", "c", "t", "i", "o", "n", " ", "r", "e", "f", "u", "s", "e", "d", ")">>]
NameNotResolved ==
    [kind |-> "fault", cls |-> "ConnectionError",
     msg |-> <<"M", "a", "x", " ", "r", "e", "t", "r", "i", "e", "s", " ", "e", "x", "c", "e", "e", "d", "e", "d", " ", "(", "C", "a", "u", "s", "e", "d", " ", "b", "y", " ", "N", "a", "m", "e", "R", "e", "s", "o", "l", "u", "t", "i", "o", "n", "E", "r", "r", "o", "r", ":", " ", "N", "a", "m", "e", " ", "o", "r", " ", "s", "e", "r", "v", "i", "c", "e", " ", "n", "o", "t", " ", "k", "n", "o", "w", "n", ")">>]
ReadTimedOut ==
    [kind |-> "fault", cls |-> "ReadTimeout", msg |-> <<"R", "e", "a", "d", " ", "t", "i", "m", "e", "d", " ", "o", "u", "t", ".", " ", "(", "r", "e", "a", "d", " ", "t", "i", "m", "e", "o", "u", "t", "=", "3", "0", ")">>]
Unexpected ==
    [kind |-> "fault", cls |-> "UnicodeError", msg |-> <<"l", "a", "b", "e", "l", " ", "e", "m", "p", "t", "y", " ", "o", "r", " ", "t", "o", "o", " ", "l", "o", "n", "g">>]

TransportFaults == {ConnectionRefused, NameNotResolved, ReadTimedOut}

Upstreams == Answers(DOMAIN UpstreamHeaders) \cup TransportFaults \cup {Unexpected}

\* the classes below requests.RequestException
RequestExceptions == {"HTTPError", "ConnectionError", "ReadTimeout"}

StatusDigits(status) ==
    CASE status = 404 -> <<"4", "0", "4">> [] status = 500 -> <<"5", "0", "0">> [] status = 200 -> <<"2", "0", "0">>

\* the text of the HTTPError response.raise_for_status() raises
HTTPErrorMessage(status, url) ==
    StatusDigits(status)
    \o (IF status < 500 THEN <<" ", "C", "l", "i", "e", "n", "t", " ", "E", "r", "r", "o", "r", ":", " ", "N", "o", "t", " ", "F", "o", "u", "n", "d", " ", "f", "o", "r", " ", "u", "r", "l", ":", " ">>
        ELSE <<" ", "S", "e", "r", "v", "e", "r", " ", "E", "r", "r", "o", "r", ":", " ", "I", "n", "t", "e", "r", "n", "a", "l", " ", "S", "e", "r", "v", "e", "r", " ", "E", "r", "r", "o", "r", " ", "f", "o", "r", " ", "u", "r", "l", ":", " ">>) \o url

\* seeded fault: the status of the answer is not looked at
RaiseForStatus_Never(response, url) == NoExc

\* response.raise_for_status(): the exception raised, NoExc for a good status
RaiseForStatus(response, url) ==
    IF response.status >= 400
    THEN [cls |-> "HTTPError", msg |-> HTTPErrorMessage(response.status, url)]
    ELSE NoExc

(***************************************************************************)
(* The answers of the relay                                                *)
(***************************************************************************)
CorsHeaders ==
    [h \in {"Access-Control-Allow-Origin", "Access-Control-Allow-Methods",
            "Access-Control-Allow-Headers"} |->
        IF h = "Access-Control-Allow-Methods" THEN "GET, OPTIONS" ELSE "*"]

\* the answer to a CORS preflight
PreflightResponse ==
    [body |-> "", http |-> 200,
     headers |-> CorsHeaders @@ [h \in {"Access-Control-Max-Age"} |-> "86400"]]

\* response.headers.get('Content-Type', 'application/octet-stream')
ContentType(headers) ==
    IF "Content-Type" \in DOMAIN headers THEN headers["Content-Type"]
    ELSE "application/octet-stream"

\* seeded fault: both caching headers are copied when both are there
Caching_Both(headers) == Restrict(headers, DOMAIN headers \cap {"Cache-Control", "Expires"})

\* the caching header that is copied: Cache-Control, or else Expires
Caching(headers) ==
    IF "Cache-Control" \in DOMAIN headers THEN Restrict(headers, {"Cache-Control"})
    ELSE IF "Expires" \in DOMAIN headers THEN Restrict(headers, {"Expires"})
    ELSE NoHeaders

\* what ResourceProxyService.proxy_resource returns for a good answer
FetchedResult(response) ==
    [content |-> response.content, content_type |-> ContentType(response.headers),
     headers |-> Caching(response.headers) @@ AllowFraming @@ CorsHeaders]

\* the streaming response of the endpoint for a good answer
FetchedResponse(response) ==
    [body |-> response.content, http |-> 200,
     headers |-> Caching(response.headers)
                 @@ Restrict(response.headers, DOMAIN response.headers \cap {"Content-Length"})
                 @@ AllowFraming @@ CorsHeaders
                 @@ [h \in {"Content-Type"} |-> ContentType(response.headers)]]

FAILED_TO_FETCH == <<"F", "a", "i", "l", "e", "d", " ", "t", "o", " ", "f", "e", "t", "c", "h", " ", "r", "e", "s", "o", "u", "r", "c", "e", ":", " ">>
AN_ERROR_OCCURRED == <<"A", "n", " ", "e", "r", "r", "o", "r", " ", "o", "c", "c", "u", "r", "r", "e", "d", ":", " ">>

\* seeded fault: the text of the exception is left out of the message
FailureMessage_Bare(e) ==
    IF e.cls \in RequestExceptions THEN FAILED_TO_FETCH ELSE AN_ERROR_OCCURRED

\* the message of the two except clauses
FailureMessage(e) ==
    IF e.cls \in RequestExceptions THEN FAILED_TO_FETCH \o e.msg ELSE AN_ERROR_OCCURRED \o e.msg

\* what ResourceProxyService.proxy_resource returns from its except clauses
FailedResult(e, resource_url) ==
    [content |-> None, content_type |-> None,
     headers |-> [error |-> FailureMessage(e), url |-> resource_url]]

\* the responses of the except clauses of the endpoint
FailedResponse(e, resource_url) ==
    [body |-> [error |-> FailureMessage(e), url |-> resource_url], http |-> 500,
     headers |-> NoHeaders]

(***************************************************************************)
(* The relay at work                                                       *)
(***************************************************************************)
NoUpstream == [kind |-> "none"]
NoResponse == [http |-> 0]

RelayStart ==
    [pc |-> "client", impl |-> "view", target |-> None, proxy_url |-> None,
     request |-> NoRequest, resource_url |-> None, upstream |-> NoUpstream,
     exc |-> NoExc, response |-> NoResponse, fetched |-> <<>>]

\* a page rewritten by one of the implementations refers to a target
Referring(impl, target) ==
    [RelayStart EXCEPT !.pc = "page", !.impl = impl, !.target = target,
                       !.proxy_url = Encode(impl, target)]

\* the browser follows the reference, through a hop that may normalise the path
Follow ==
    /\ relay.pc = "page"
    /\ \E collapsed \in BOOLEAN :
          relay' = [relay EXCEPT !.pc = "routing",
                                 !.request = RequestFor(relay.proxy_url, collapsed)]
    /\ UNCHANGED <<render_vars, rw, audio>>

\* a client sends a request of its own to the relay endpoint
Ask ==
    /\ relay.pc = "client"
    /\ \E request \in OwnRequests :
          relay' = [relay EXCEPT !.pc = "routing", !.request = request]
    /\ UNCHANGED <<render_vars, rw, audio>>

\* the request is dispatched to its view
Route ==
    /\ relay.pc = "routing"
    /\ relay' = [relay EXCEPT !.pc = Resolve(relay.request.path)]
    /\ UNCHANGED <<render_vars, rw, audio>>

\* the view behind proxy-path/<path:url> finds its target and hands it to
\* ResourceProxyService.proxy_resource
ProxyPathView ==
    /\ relay.pc = "proxy_path_view"
    /\ relay' = [relay EXCEPT !.pc = "fetch",
                    !.resource_url = DecodePath(Captured(relay.request.path), relay.request.query)]
    /\ UNCHANGED <<render_vars, rw, audio>>

\* seeded fault: a preflight is recognised only after the url was asked for
IsPreflight_AfterUrl(request) ==
    request.method = "OPTIONS" /\ QueryGet(QueryDict(request.query), <<"u", "r", "l">>) # None

\* if request.method == 'OPTIONS'
IsPreflight(request) == request.method = "OPTIONS"

\* proxy_resource answers a preflight
Preflight ==
    /\ relay.pc = "proxy_resource"
    /\ IsPreflight(relay.request)
    /\ relay' = [relay EXCEPT !.pc = "done",
                              !.response = XframeOptionsExempt(PreflightResponse)]
    /\ UNCHANGED <<render_vars, rw, audio>>

\* proxy_resource reads its url parameter, and answers 400 without one
ReadUrl ==
    /\ relay.pc = "proxy_resource"
    /\ ~IsPreflight(relay.request)
    /\ LET resource_url == QueryGet(QueryDict(relay.request.query), <<"u", "r", "l">>) IN
          relay' = IF resource_url = None
                   THEN [relay EXCEPT !.pc = "done",
                            !.response = XframeOptionsExempt(
                                [body |-> [error |-> UrlRequiredMessage], http |-> 400,
                                 headers |-> NoHeaders])]
                   ELSE [relay EXCEPT !.pc = "fetch", !.resource_url = resource_url]
    /\ UNCHANGED <<render_vars, rw, audio>>

\* requests.get(resource_url, ...): the upstream answers, or cannot be reached
Fetch ==
    /\ relay.pc = "fetch"
    /\ \E upstream \in env.upstreams :
          relay' = [relay EXCEPT
                      !.pc = IF upstream.kind = "fault" THEN "except" ELSE "fetched",
                      !.upstream = upstream,
                      !.exc = IF upstream.kind = "fault"
                              THEN [cls |-> upstream.cls, msg |-> upstream.msg] ELSE NoExc,
                      !.fetched = Append(@, relay.resource_url)]
    /\ UNCHANGED <<render_vars, rw, audio>>

\* response.raise_for_status()
CheckStatus ==
    /\ relay.pc = "fetched"
    /\ LET e == RaiseForStatus(relay.upstream, relay.resource_url) IN
          relay' = [relay EXCEPT !.pc = IF e = NoExc THEN "build" ELSE "except", !.exc = e]
    /\ UNCHANGED <<render_vars, rw, audio>>

\* the rest of the try block: the answer is passed on
PassOn ==
    /\ relay.pc = "build"
    /\ relay' = [relay EXCEPT !.pc = "done",
                    !.response = IF relay.impl = "service" THEN FetchedResult(relay.upstream)
                                 ELSE XframeOptionsExempt(FetchedResponse(relay.upstream))]
    /\ UNCHANGED <<render_vars, rw, audio>>

\* the except clauses
Except ==
    /\ relay.pc = "except"
    /\ relay' = [relay EXCEPT !.pc = "done",
                    !.response = IF relay.impl = "service"
                                 THEN FailedResult(relay.exc, relay.resource_url)
                                 ELSE XframeOptionsExempt(
                                          FailedResponse(relay.exc, relay.resource_url))]
    /\ UNCHANGED <<render_vars, rw, audio>>

RelayIdle ==
    /\ call = [w \in Workers |-> IdleCall]
    /\ handles = [h \in HandleIds |-> Absent]
    /\ leaked = {}
    /\ rw = NoRewrite
    /\ audio = NoAudio

InitRelay ==
    /\ env = [workers |-> {}, urls |-> {}, faulty |-> {}, raises |-> {}, upstreams |-> Upstreams]
    /\ RelayIdle
    /\ relay \in {RelayStart} \cup {Referring(impl, target) : impl \in Impls, target \in Targets}

NextRelay ==
    \/ Follow
    \/ Ask
    \/ Route
    \/ ProxyPathView
    \/ Preflight
    \/ ReadUrl
    \/ Fetch
    \/ CheckStatus
    \/ PassOn
    \/ Except

SpecRelay == InitRelay /\ [][NextRelay]_vars

(***************************************************************************)
(* Properties of the relay                                                 *)
(***************************************************************************)
\* the relay has found the target of a reference it was asked for
Decoded == relay.pc # "off" /\ relay.target # None /\ relay.resource_url # None

\* C12: the target the relay decodes from the proxy url of an absolute url
\* outside the passthrough set is that url, byte for byte, query included,
\* for the path-based and for the query-based encoding.
C12_RoundTrip == Decoded => relay.resource_url = relay.target

\* the relay has answered
Answered == relay.pc = "done"

\* the upstream was reached and answered with an error status
StatusError == relay.upstream.kind = "response" /\ relay.upstream.status >= 400

\* the upstream could not be reached
TransportFault == relay.upstream \in TransportFaults

\* what the relay hands back is a failure: the error tuple of the service, the
\* error response of the endpoint
Failed(r) ==
    IF "content" \in DOMAIN r
    THEN r.content = None /\ r.content_type = None /\ "error" \in DOMAIN r.headers
    ELSE r.http = 500 /\ "error" \in DOMAIN r.body

\* the error and the url a failure carries
Diagnostics(r) == IF "content" \in DOMAIN r THEN r.headers ELSE r.body

\* C16: when the upstream answers with an error status, the relay hands back
\* a failure whose message names that status and which carries the url; it
\* does not hand back the error page as a resource, and the exception of the
\* status check ends in an except clause of the relay.
C16_StatusErrorIsFailure ==
    /\ (relay.pc \in {"build", "except", "done"} /\ StatusError) =>
          /\ relay.exc.cls = "HTTPError"
          /\ relay.pc # "build"
    /\ (Answered /\ StatusError) =>
          /\ Failed(relay.response)
          /\ Contains(Diagnostics(relay.response).error, StatusDigits(relay.upstream.status))
          /\ Diagnostics(relay.response).url = relay.resource_url

C16_Witness ==
    /\ Answered
    /\ relay.upstream.kind = "response"
    /\ relay.upstream.status = 404
    /\ Failed(relay.response)
    /\ relay.impl = "service"

\* the messages the relay has for the error statuses of an upstream
StatusErrorMessages(url) ==
    {FailureMessage(RaiseForStatus(answer, url)) :
        answer \in {a \in Answers({}) : a.status >= 400}}

\* the messages the relay has for an upstream that cannot be reached
TransportFaultMessages ==
    {FailureMessage([cls |-> fault.cls, msg |-> fault.msg]) : fault \in TransportFaults}

\* C17: the message of a failure after a transport fault (name not resolved,
\* connection refused, timeout) is none of the messages given for an error
\* status of the upstream, and the other way round; both failures carry the
\* url that was asked for.
C17_KindsTellApart ==
    (Answered /\ (TransportFault \/ StatusError)) =>
        /\ Failed(relay.response)
        /\ Diagnostics(relay.response).url = relay.resource_url
        /\ TransportFault =>
              Diagnostics(relay.response).error \notin StatusErrorMessages(relay.resource_url)
        /\ StatusError =>
              Diagnostics(relay.response).error \notin TransportFaultMessages

C17_Witness ==
    /\ Answered
    /\ relay.upstream = ReadTimedOut
    /\ Failed(relay.response)
    /\ relay.impl = "view"

\* the relay passed on a good answer of the upstream
Succeeded == Answered /\ relay.upstream.kind = "response" /\ relay.upstream.status < 400

\* the Content-Type the relay answers with
ContentTypeOf(r) ==
    IF "content_type" \in DOMAIN r THEN r.content_type
    ELSE IF "Content-Type" \in DOMAIN r.headers THEN r.headers["Content-Type"] ELSE None

\* a header of the answer is the header of the upstream
Copied(name) ==
    /\ name \in DOMAIN relay.response.headers
    /\ relay.response.headers[name] = relay.upstream.headers[name]

\* C18: a good answer is passed on with the Content-Type of the upstream, with
\* Access-Control-Allow-Origin *, Allow-Methods GET, OPTIONS, Allow-Headers *
\* and X-Frame-Options ALLOWALL; with the Cache-Control of the upstream if it
\* has one, else with its Expires if it has one, and never with both; and
\* without its Content-Encoding and Transfer-Encoding.
C18_SuccessHeaders ==
    Succeeded =>
        LET sent == relay.response.headers
            got == relay.upstream.headers
        IN  /\ "Content-Type" \in DOMAIN got => ContentTypeOf(relay.response) = got["Content-Type"]
            /\ {"Access-Control-Allow-Origin", "Access-Control-Allow-Methods",
                "Access-Control-Allow-Headers", "X-Frame-Options"} \subseteq DOMAIN sent
            /\ sent["Access-Control-Allow-Origin"] = "*"
            /\ sent["Access-Control-Allow-Methods"] = "GET, OPTIONS"
            /\ sent["Access-Control-Allow-Headers"] = "*"
            /\ sent["X-Frame-Options"] = "ALLOWALL"
            /\ "Cache-Control" \in DOMAIN got => Copied("Cache-Control")
            /\ "Cache-Control" \notin DOMAIN got => "Cache-Control" \notin DOMAIN sent
            /\ ("Expires" \in DOMAIN got /\ "Cache-Control" \notin DOMAIN got) => Copied("Expires")
            /\ ("Expires" \notin DOMAIN got \/ "Cache-Control" \in DOMAIN got) =>
                  "Expires" \notin DOMAIN sent
            /\ {"Content-Encoding", "Transfer-Encoding"} \cap DOMAIN sent = {}

C18_Witness ==
    /\ Succeeded
    /\ {"Content-Type", "Cache-Control", "Expires", "Content-Encoding", "Transfer-Encoding"}
          \subseteq DOMAIN relay.upstream.headers
    /\ "Cache-Control" \in DOMAIN relay.response.headers
    /\ relay.impl = "view"

\* the endpoint was asked with OPTIONS and is past its first statement
PreflightAsked ==
    /\ relay.request.method = "OPTIONS"
    /\ relay.pc \notin {"off", "client", "page", "routing", "proxy_resource"}

\* C19: an OPTIONS request to the relay endpoint is answered at once with
\* Access-Control-Allow-Origin *, Allow-Methods GET, OPTIONS, Allow-Headers *
\* and Max-Age 86400 and with an empty body, with and without a url
\* parameter, and nothing is fetched for it.
C19_Preflight ==
    PreflightAsked =>
        /\ Answered
        /\ {"Access-Control-Allow-Origin", "Access-Control-Allow-Methods",
            "Access-Control-Allow-Headers", "Access-Control-Max-Age"}
              \subseteq DOMAIN relay.response.headers
        /\ relay.response.headers["Access-Control-Allow-Origin"] = "*"
        /\ relay.response.headers["Access-Control-Allow-Methods"] = "GET, OPTIONS"
        /\ relay.response.headers["Access-Control-Allow-Headers"] = "*"
        /\ relay.response.headers["Access-Control-Max-Age"] = "86400"
        /\ relay.response.body = ""
        /\ relay.fetched = <<>>

C19_Witness ==
    /\ PreflightAsked
    /\ relay.request.query = <<>>
    /\ "Access-Control-Max-Age" \in DOMAIN relay.response.headers

\* C28: the Content-Length the relay endpoint sends with a streamed resource
\* is the number of bytes it streams, whatever the upstream answered, an
\* answer with a Content-Encoding included.
C28_ContentLength ==
    (Succeeded /\ relay.impl = "view" /\ "Content-Length" \in DOMAIN relay.response.headers) =>
        relay.response.headers["Content-Length"] = Decimal(IterContentLength(relay.upstream))

(***************************************************************************)
(* Both endpoints in one deployment: a page is rendered while the relay    *)
(* serves a request                                                        *)
(***************************************************************************)
\* a good answer, an error status and a fault of the upstream
GoodAnswer ==
    [kind |-> "response", status |-> 200, content |-> ContentOf(200),
     headers |-> Restrict(UpstreamHeaders, {"Content-Type", "Expires"})]

NotFound ==
    [kind |-> "response", status |-> 404, content |-> ContentOf(404),
     headers |-> Restrict(UpstreamHeaders, {"Content-Type"})]

InitEndpoints ==
    /\ env = [workers |-> {1}, urls |-> {UrlEmpty, UrlBare}, faulty |-> {"goto", "stop"},
              raises |-> {TimeoutExc, ClosedExc},
              upstreams |-> {GoodAnswer, NotFound, ConnectionRefused}]
    /\ call = [w \in Workers |-> IdleCall]
    /\ handles = [h \in HandleIds |-> Absent]
    /\ leaked = {}
    /\ rw = NoRewrite
    /\ audio = NoAudio
    /\ relay \in {RelayStart} \cup {Referring(impl, <<"h", "t", "t", "p", "s", ":", "/", "/", "c", ".", "i", "o", "/", "a", ".", "p", "n", "g">>) : impl \in Impls}

NextEndpoints == Next \/ NextRelay

SpecEndpoints == InitEndpoints /\ [][NextEndpoints]_vars

\* the responses the two endpoints have given
RenderResponses == {call[w].result : w \in {v \in Workers : call[v].pc = "returned" /\ call[v].impl = "view"}}

RelayResponses == IF Answered /\ relay.impl = "view" THEN {relay.response} ELSE {}

\* the response carries the header that allows framing
AllowsFraming(r) ==
    "X-Frame-Options" \in DOMAIN r.headers /\ r.headers["X-Frame-Options"] = "ALLOWALL"

\* C20 as stated: every response of the render endpoint and of the relay
\* endpoint carries the header that allows framing.
C20_FrameHeader ==
    /\ \A r \in RenderResponses : AllowsFraming(r)
    /\ \A r \in RelayResponses : AllowsFraming(r)

\* the view marked the response as exempt from frame-blocking
Exempt(r) == "xframe_options_exempt" \in DOMAIN r /\ r.xframe_options_exempt

\* the response has no X-Frame-Options header at all
Unframed(r) == "X-Frame-Options" \notin DOMAIN r.headers

\* C20: every response of the render endpoint and of the relay endpoint
\* (success, failure, input error and preflight) is marked exempt from the
\* frame-blocking of the clickjacking middleware; the responses that pass on
\* a page or a resource carry X-Frame-Options: ALLOWALL as well, the others
\* carry no X-Frame-Options header.
C20_FramingAllowed ==
    /\ \A r \in RenderResponses :
          Exempt(r) /\ (IF IsSuccess(r) THEN AllowsFraming(r) ELSE Unframed(r))
    /\ \A r \in RelayResponses :
          Exempt(r) /\ (IF Succeeded THEN AllowsFraming(r) ELSE Unframed(r))

C20_Witness ==
    /\ \E r \in RenderResponses : IsFailure(r) /\ Exempt(r) /\ Unframed(r)
    /\ \E r \in RelayResponses : relay.request.method = "OPTIONS" /\ Exempt(r) /\ Unframed(r)

(***************************************************************************)
(* What a failure tells the caller                                         *)
(***************************************************************************)
\* a call into the render has returned a failure: the dict of the service, the
\* 400 or 500 response of the endpoint
RenderFailed(c) == c.pc = "returned" /\ "error" \in DOMAIN c.result.body

\* the relay endpoint has answered with a failure
RelayFailed == Answered /\ relay.impl = "view" /\ relay.response.http \in {400, 500}

\* the url parameter as the client of the relay sent it
Requested == QueryGet(QueryDict(relay.request.query), <<"u", "r", "l">>)

\* C21: every failure of the render and of the relay endpoint carries a
\* message and the url as the client gave it.
C21_OriginalUrlEchoed ==
    /\ \A w \in Workers :
          RenderFailed(call[w]) =>
              /\ call[w].result.body.error.text # ""
              /\ "url" \in DOMAIN call[w].result.body
              /\ call[w].result.body.url = call[w].raw
    /\ RelayFailed =>
          /\ "error" \in DOMAIN relay.response.body
          /\ "url" \in DOMAIN relay.response.body
          /\ relay.response.body.url = Requested

\* the exception is neither a timeout nor a failed navigation
IsUnexpected(e) ==
    /\ e # NoExc
    /\ e.cls # "PlaywrightTimeoutError"
    /\ ~Contains(e.msg, NET_ERR)
    /\ ~Contains(e.msg, NAV_FAILED)
    /\ ~Contains(Lower(e.msg), TIMEOUT_WORD)

\* C22: the message of a render that failed for an unexpected reason is a
\* fixed text: nothing of the text of the exception is in it.
C22_GenericMessage ==
    \A w \in Workers :
        (RenderFailed(call[w]) /\ IsUnexpected(call[w].exc)) =>
            call[w].result.body.error.detail = <<>>

(***************************************************************************)
(* Audio creations: the record AudioCreationViewSet.create stores and the  *)
(* task generate_audio_from_text_sync that turns its text into a file      *)
(***************************************************************************)

\* AbstractBaseCreation.Status
PENDING == "pending"

PROCESSING == "processing"

COMPLETED == "completed"

FAILED == "failed"

\* AudioCreation.ResponseFormat
ResponseFormats == {"mp3", "opus", "aac", "flac", "wav"}

\* the formats the task has an output format for
OutputFormatMap ==
    [f \in {"mp3", "opus", "aac", "wav"} |->
        CASE f = "mp3" -> "Audio24Khz160KBitRateMonoMp3"
          [] f = "opus" -> "Ogg24Khz16BitMonoOpus"
          [] f = "aac" -> "Audio24Khz96KBitRateMonoMp3"
          [] f = "wav" -> "Riff24Khz16BitMonoPcm"]

FileExtension(response_format) == IF response_format = "aac" THEN "mp3" ELSE response_format

FileName(id, response_format) == <<[id |-> id, extension |-> FileExtension(response_format)]>>

\* a text field that holds a value (None is the field without one)
Text(m) == <<m>>

NumInvocations == 2

Invocations == 1..NumInvocations

\* the id of the record create() stores, and an id no record has
CreationId == "creation"

UnknownId == "unknown"

\* the table has no record
NoCreation == [status |-> "absent", response_format |-> "", result_file |-> None, error_message |-> None]

\* AudioCreation.objects.create: status takes its default, no file, no message
NewCreation(response_format) ==
    [status |-> PENDING, response_format |-> response_format, result_file |-> None,
     error_message |-> None]

\* what speak_ssml_async(...).get() can hand back
Synthesized == [reason |-> "SynthesizingAudioCompleted", audio_data |-> "bytes", error_details |-> ""]

Silent == [reason |-> "SynthesizingAudioCompleted", audio_data |-> "", error_details |-> ""]

CanceledAuthentication ==
    [reason |-> "Canceled", audio_data |-> "", error_details |-> "Authentication error"]

CanceledOther == [reason |-> "Canceled", audio_data |-> "", error_details |-> "Connection lost"]

CanceledBare == [reason |-> "Canceled", audio_data |-> "", error_details |-> ""]

SpeechResults == {Synthesized, Silent, CanceledAuthentication, CanceledOther, CanceledBare}

\* the message of the exception the synthesis block raises, None when it raises none
SynthesisError(configured, response_format, result) ==
    IF ~configured THEN Text("Azure Speech credentials not configured.")
    ELSE IF response_format \notin DOMAIN OutputFormatMap
    THEN Text("Unsupported audio format requested")
    ELSE IF result.reason = "Canceled"
    THEN IF result.error_details = "Authentication error"
         THEN Text("Authentication failed.")
         ELSE IF result.error_details = ""
              THEN Text("Speech synthesis canceled. Details: No details provided.")
              ELSE Text("Speech synthesis canceled. Details: Connection lost")
    ELSE IF result.audio_data = ""
    THEN Text("Synthesis completed but no audio data was returned from the service.")
    ELSE None

\* an invocation of the task that has not been made
NotInvoked ==
    [pc |-> "idle", creation_id |-> "", creation |-> NoCreation, passed |-> FALSE, saved |-> FALSE,
     error |-> None, returns |-> ""]

\* create(): the record is stored and the task is called with its id
Create ==
    /\ audio.pc = "on"
    /\ audio.row = NoCreation
    /\ \E response_format \in env.formats :
          audio' = [audio EXCEPT !.row = NewCreation(response_format),
                                 !.inv[1] = [NotInvoked EXCEPT !.pc = "called",
                                                                !.creation_id = CreationId]]
    /\ UNCHANGED <<render_vars, rw, relay>>

\* the task is called once more: with the id of the stored record or with an id
\* no record has
Invoke(i) ==
    /\ audio.pc = "on"
    /\ audio.inv[i].pc = "idle"
    /\ i # 1
    /\ \E id \in {CreationId, UnknownId} :
          /\ id = CreationId => audio.row # NoCreation
          /\ audio' = [audio EXCEPT !.inv[i] = [NotInvoked EXCEPT !.pc = "called",
                                                                   !.creation_id = id]]
    /\ UNCHANGED <<render_vars, rw, relay>>

\* AudioCreation.objects.get(id=creation_id)
GetCreation(i) ==
    /\ audio.pc = "on"
    /\ audio.inv[i].pc = "called"
    /\ IF audio.inv[i].creation_id = CreationId /\ audio.row # NoCreation
       THEN audio' = [audio EXCEPT !.inv[i].pc = "got", !.inv[i].creation = audio.row]
       ELSE audio' = [audio EXCEPT !.inv[i].pc = "returned", !.inv[i].returns = "not found"]
    /\ UNCHANGED <<render_vars, rw, relay>>

\* the test of the status the invocation read, and the save of PROCESSING
MarkProcessing(i) ==
    /\ audio.pc = "on"
    /\ audio.inv[i].pc = "got"
    /\ IF audio.inv[i].creation.status # PENDING
       THEN audio' = [audio EXCEPT !.inv[i].pc = "returned",
                                   !.inv[i].returns = "already processed"]
       ELSE audio' = [audio EXCEPT !.inv[i].pc = "processing",
                                   !.inv[i].passed = TRUE,
                                   !.inv[i].saved = TRUE,
                                   !.inv[i].creation.status = PROCESSING,
                                   !.row.status = PROCESSING]
    /\ UNCHANGED <<render_vars, rw, relay>>

\* the synthesis block up to the audio data or to the exception it raises
Synthesize(i) ==
    /\ audio.pc = "on"
    /\ audio.inv[i].pc = "processing"
    /\ \E result \in env.results :
          LET error == SynthesisError(env.configured, audio.inv[i].creation.response_format, result)
          IN  audio' = [audio EXCEPT !.inv[i].pc = IF error = None THEN "synthesized" ELSE "raised",
                                     !.inv[i].error = error]
    /\ UNCHANGED <<render_vars, rw, relay>>

\* the atomic block that stores the file and saves result_file, status and
\* error_message
StoreResult(i) ==
    /\ audio.pc = "on"
    /\ audio.inv[i].pc = "synthesized"
    /\ LET file_name == FileName(audio.inv[i].creation_id, audio.inv[i].creation.response_format)
       IN  audio' = [audio EXCEPT !.files = @ \cup {file_name},
                                  !.inv[i].pc = "returned",
                                  !.inv[i].returns = "successfully processed",
                                  !.inv[i].creation.result_file = file_name,
                                  !.inv[i].creation.status = COMPLETED,
                                  !.inv[i].creation.error_message = None,
                                  !.row.result_file = file_name,
                                  !.row.status = COMPLETED,
                                  !.row.error_message = None]
    /\ UNCHANGED <<render_vars, rw, relay>>

\* the except clause: the atomic block that saves error_message and status
RecordFailure(i) ==
    /\ audio.pc = "on"
    /\ audio.inv[i].pc = "raised"
    /\ audio' = [audio EXCEPT !.inv[i].pc = "returned",
                              !.inv[i].returns = "failed",
                              !.inv[i].creation.error_message = audio.inv[i].error,
                              !.inv[i].creation.status = FAILED,
                              !.row.error_message = audio.inv[i].error,
                              !.row.status = FAILED]
    /\ UNCHANGED <<render_vars, rw, relay>>

\* generate_audio_from_text_sync, one step of one invocation
GenerateAudioFromTextSync(i) ==
    \/ GetCreation(i)
    \/ MarkProcessing(i)
    \/ Synthesize(i)
    \/ StoreResult(i)
    \/ RecordFailure(i)

\* the deployment of the audio feature: the formats clients ask for, whether
\* the speech credentials are configured, what the speech service answers
InitAudio ==
    /\ \E configured \in BOOLEAN :
          env = [workers |-> {}, urls |-> {}, faulty |-> {}, raises |-> {},
                 formats |-> {"mp3", "aac", "flac"}, configured |-> configured,
                 results |-> SpeechResults]
    /\ call = [w \in Workers |-> IdleCall]
    /\ handles = [h \in HandleIds |-> Absent]
    /\ leaked = {}
    /\ rw = NoRewrite
    /\ relay = NoRelay
    /\ audio = [pc |-> "on", row |-> NoCreation, files |-> {},
                inv |-> [i \in Invocations |-> NotInvoked]]

NextAudio ==
    \/ Create
    \/ \E i \in Invocations : Invoke(i)
    \/ \E i \in Invocations : GenerateAudioFromTextSync(i)

SpecAudio == InitAudio /\ [][NextAudio]_vars

\* an invocation that was called runs to its return
SpecAudioFair ==
    InitAudio /\ [][NextAudio]_vars /\ \A i \in Invocations : WF_vars(GenerateAudioFromTextSync(i))

(***************************************************************************)
(* Properties of the audio task                                            *)
(***************************************************************************)

AudioOn == audio.pc = "on"

\* the invocations that passed the PENDING test
PassedPending == {i \in Invocations : audio.inv[i].passed}

\* C29: for one AudioCreation, however the invocations of the task interleave,
\* at most one of them passes the PENDING test and synthesizes, and every other
\* one returns without having saved the record
C29_OneInvocationSynthesizes ==
    AudioOn =>
        /\ Cardinality(PassedPending) <= 1
        /\ \A i \in Invocations : ~audio.inv[i].passed => ~audio.inv[i].saved

StatusSteps ==
    {<<"absent", PENDING>>, <<PENDING, PROCESSING>>, <<PROCESSING, COMPLETED>>,
     <<PROCESSING, FAILED>>}

\* the status of the record changes along the lifecycle only
LifecycleStep ==
    (AudioOn /\ audio'.row.status # audio.row.status) =>
        <<audio.row.status, audio'.row.status>> \in StatusSteps

\* a completed record has a stored file and no message, a failed one a message
Settled ==
    AudioOn =>
        /\ audio.row.status = COMPLETED =>
              /\ audio.row.result_file # None
              /\ audio.row.result_file \in audio.files
              /\ audio.row.error_message = None
        /\ audio.row.status = FAILED => audio.row.error_message # None

InProcessing == AudioOn /\ audio.row.status = PROCESSING

Terminal == AudioOn /\ audio.row.status \in {COMPLETED, FAILED}

\* C30: the status moves only PENDING -> PROCESSING -> COMPLETED or FAILED,
\* COMPLETED and FAILED are never left, a record in PROCESSING eventually is
\* COMPLETED or FAILED, a COMPLETED record has a stored result file and an
\* empty error_message, and a FAILED record has its error_message set
C30_StatusLifecycle ==
    /\ [][LifecycleStep]_vars
    /\ []Settled
    /\ (InProcessing ~> Terminal)

====
